---- MODULE Spec2Model ----
(***************************************************************************)
(* A model of oras-credentials-go: the docker-style config file            *)
(* (internal/config.Config), the plain-text FileStore over it, the         *)
(* dynamicStore resolver and its one-time credsStore write.                *)
(*                                                                         *)
(* Strings that the code takes apart (username, password, the auth blob,   *)
(* the tokens) are sequences of byte values; <<>> is the empty string.     *)
(* Server addresses, helper names and top-level field names are only ever  *)
(* compared, so they are TLA+ strings.                                     *)
(* A JSON object is a function from its keys to its values; a key that is  *)
(* not in the DOMAIN is a field that is not in the object.                 *)
(***************************************************************************)
EXTENDS Integers, Sequences, FiniteSets, TLC

VARIABLES
    file,                    \* the config path on disk: [exists, complete, doc]
    tmp,                     \* the ingest (temporary) file of each caller's save
    leftover,                \* temporary files no save refers to any more
    writes,                  \* number of renames onto the config path
    content,                 \* Config.content
    authsCache,              \* Config.authsCache
    credentialsStoreCache,   \* Config.credentialsStoreCache
    credentialHelpersCache,  \* Config.credentialHelpersCache
    DisablePut,              \* FileStore.DisablePut of the stand-alone FileStore
    AllowPlaintextPut,       \* dynamicStore.options.AllowPlaintextPut
    detectedCredsStore,      \* dynamicStore.detectedCredsStore
    setCredsStoreOnce,       \* dynamicStore.setCredsStoreOnce: [done, m]
    native,                  \* what each credential helper holds: helper -> server -> credential
    platformDefault,         \* what getDefaultHelperSuffix() finds on this machine
    loaded,                  \* the document read by LoadConfigFile
    sf,                      \* what NewStoreWithFallbacks returned: [wrapped, stores]
    constructed,             \* the Store the constructor returned, "nil" if none
    registry,                \* the caller's remote.Registry objects, by registry name
    instances,               \* the Configs loaded from the path by separate callers
    touched,                 \* the servers named by a Put or Delete so far
    setCalls,                \* number of times the once-function called PutCredentialsStore
    saveFailed,              \* whether some saveFile returned an error
    rwLock,                  \* Config.rwLock: [writer, readers]
    pc,                      \* position of each caller
    call,                    \* the call each caller is in
    nops,                    \* number of calls started
    ret                      \* the last call that returned: [op, server, cred, err, backend,
                             \* consulted, ctx]

vars == <<file, tmp, leftover, writes, content, authsCache, credentialsStoreCache,
          credentialHelpersCache, DisablePut, AllowPlaintextPut, detectedCredsStore,
          setCredsStoreOnce, native, platformDefault, loaded, sf, constructed,
          registry, instances, touched, setCalls,
          saveFailed, rwLock, pc, call, nops, ret>>

--------------------------------------------------------------------------
(* Maps (Go maps, JSON objects) *)

EmptyMap == [k \in {} |-> {}]

MapPut(m, k, v) == [x \in (DOMAIN m) \cup {k} |-> IF x = k THEN v ELSE m[x]]

MapDelete(m, k) == [x \in (DOMAIN m) \ {k} |-> m[x]]

\* m[k] of a Go map[string]string: the zero value for a missing key
MapGetString(m, k) == IF k \in DOMAIN m THEN m[k] ELSE ""

--------------------------------------------------------------------------
(* encoding/base64, StdEncoding *)

\* the character (ASCII code) of a 6-bit value
B64Char(i) ==
    IF i < 26 THEN 65 + i
    ELSE IF i < 52 THEN 97 + (i - 26)
    ELSE IF i < 62 THEN 48 + (i - 52)
    ELSE IF i = 62 THEN 43 ELSE 47

\* the 6-bit value of a character, -1 if it is not in the alphabet
B64Index(c) ==
    IF c >= 65 /\ c <= 90 THEN c - 65
    ELSE IF c >= 97 /\ c <= 122 THEN c - 97 + 26
    ELSE IF c >= 48 /\ c <= 57 THEN c - 48 + 52
    ELSE IF c = 43 THEN 62
    ELSE IF c = 47 THEN 63 ELSE -1

RECURSIVE EncodeToString(_)
EncodeToString(b) ==
    IF Len(b) = 0 THEN <<>>
    ELSE IF Len(b) = 1 THEN
        <<B64Char(b[1] \div 4), B64Char((b[1] % 4) * 16), 61, 61>>
    ELSE IF Len(b) = 2 THEN
        <<B64Char(b[1] \div 4), B64Char((b[1] % 4) * 16 + b[2] \div 16),
          B64Char((b[2] % 16) * 4), 61>>
    ELSE
        <<B64Char(b[1] \div 4), B64Char((b[1] % 4) * 16 + b[2] \div 16),
          B64Char((b[2] % 16) * 4 + b[3] \div 64), B64Char(b[3] % 64)>>
        \o EncodeToString(SubSeq(b, 4, Len(b)))

\* the decoder skips carriage returns and line feeds
StripNewlines(s) == SelectSeq(s, LAMBDA c : c # 10 /\ c # 13)

RECURSIVE DecodeQuads(_)
DecodeQuads(s) ==
    IF Len(s) = 0 THEN [ok |-> TRUE, bytes |-> <<>>]
    ELSE IF Len(s) < 4 THEN [ok |-> FALSE, bytes |-> <<>>]
    ELSE
        LET i1 == B64Index(s[1])
            i2 == B64Index(s[2])
            i3 == B64Index(s[3])
            i4 == B64Index(s[4])
            last == Len(s) = 4
        IN  IF i1 < 0 \/ i2 < 0 THEN [ok |-> FALSE, bytes |-> <<>>]
            ELSE IF last /\ s[3] = 61 /\ s[4] = 61 THEN
                [ok |-> TRUE, bytes |-> <<i1 * 4 + i2 \div 16>>]
            ELSE IF i3 < 0 THEN [ok |-> FALSE, bytes |-> <<>>]
            ELSE IF last /\ s[4] = 61 THEN
                [ok |-> TRUE,
                 bytes |-> <<i1 * 4 + i2 \div 16, (i2 % 16) * 16 + i3 \div 4>>]
            ELSE IF i4 < 0 THEN [ok |-> FALSE, bytes |-> <<>>]
            ELSE
                LET rest == DecodeQuads(SubSeq(s, 5, Len(s)))
                IN  [ok |-> rest.ok,
                     bytes |-> IF rest.ok
                               THEN <<i1 * 4 + i2 \div 16, (i2 % 16) * 16 + i3 \div 4,
                                      (i3 % 4) * 64 + i4>> \o rest.bytes
                               ELSE <<>>]

DecodeString(s) == DecodeQuads(StripNewlines(s))

--------------------------------------------------------------------------
(* internal/config: the auth codec *)

Colon == 58

\* strings.Cut(s, ":"): the text before and after the first ':'
RECURSIVE IndexOf(_, _, _)
IndexOf(s, c, i) ==
    IF i > Len(s) THEN 0 ELSE IF s[i] = c THEN i ELSE IndexOf(s, c, i + 1)

\* the last ':' of s at or before i, 0 if there is none
RECURSIVE LastIndexOf(_, _, _)
LastIndexOf(s, c, i) ==
    IF i = 0 THEN 0 ELSE IF s[i] = c THEN i ELSE LastIndexOf(s, c, i - 1)

\* a cut at the last ':'
Cut_Last(s) ==
    LET i == LastIndexOf(s, Colon, Len(s))
    IN  IF i = 0 THEN [before |-> s, after |-> <<>>, found |-> FALSE]
        ELSE [before |-> SubSeq(s, 1, i - 1), after |-> SubSeq(s, i + 1, Len(s)),
              found |-> TRUE]

Cut(s) ==
    LET i == IndexOf(s, Colon, 1)
    IN  IF i = 0 THEN [before |-> s, after |-> <<>>, found |-> FALSE]
        ELSE [before |-> SubSeq(s, 1, i - 1), after |-> SubSeq(s, i + 1, Len(s)),
              found |-> TRUE]

encodeAuth(username, password) ==
    IF username = <<>> /\ password = <<>> THEN <<>>
    ELSE EncodeToString(username \o <<Colon>> \o password)

decodeAuth(authStr) ==
    IF authStr = <<>> THEN [username |-> <<>>, password |-> <<>>, err |-> "nil"]
    ELSE
        LET decoded == DecodeString(authStr)
            cut == Cut(decoded.bytes)
        IN  IF ~decoded.ok \/ ~cut.found
            THEN [username |-> <<>>, password |-> <<>>, err |-> "decode"]
            ELSE [username |-> cut.before, password |-> cut.after, err |-> "nil"]

EmptyCredential ==
    [Username |-> <<>>, Password |-> <<>>, RefreshToken |-> <<>>, AccessToken |-> <<>>]

NewAuthConfig(cred) ==
    [Auth |-> encodeAuth(cred.Username, cred.Password),
     IdentityToken |-> cred.RefreshToken,
     RegistryToken |-> cred.AccessToken,
     Username |-> <<>>,
     Password |-> <<>>]

\* AuthConfig.Credential() preferring the legacy fields when they are set
Credential_LegacyFirst(ac) ==
    LET d == decodeAuth(ac.Auth)
    IN  IF ac.Username # <<>> \/ ac.Auth = <<>>
        THEN [cred |-> [Username |-> ac.Username, Password |-> ac.Password,
                        RefreshToken |-> ac.IdentityToken,
                        AccessToken |-> ac.RegistryToken],
              err |-> "nil"]
        ELSE IF d.err # "nil"
        THEN [cred |-> EmptyCredential, err |-> "ErrInvalidConfigFormat"]
        ELSE [cred |-> [Username |-> d.username, Password |-> d.password,
                        RefreshToken |-> ac.IdentityToken,
                        AccessToken |-> ac.RegistryToken],
              err |-> "nil"]

\* AuthConfig.Credential()
Credential(ac) ==
    LET d == decodeAuth(ac.Auth)
    IN  IF ac.Auth # <<>>
        THEN IF d.err # "nil"
             THEN [cred |-> EmptyCredential, err |-> "ErrInvalidConfigFormat"]
             ELSE [cred |-> [Username |-> d.username, Password |-> d.password,
                             RefreshToken |-> ac.IdentityToken,
                             AccessToken |-> ac.RegistryToken],
                   err |-> "nil"]
        ELSE [cred |-> [Username |-> ac.Username, Password |-> ac.Password,
                        RefreshToken |-> ac.IdentityToken,
                        AccessToken |-> ac.RegistryToken],
              err |-> "nil"]

\* the JSON keys of AuthConfig, all omitempty
AuthConfigKeys ==
    [Auth |-> "auth", IdentityToken |-> "identitytoken", RegistryToken |-> "registrytoken",
     Username |-> "username", Password |-> "password"]

\* json.Marshal(authCfg): the object holding the non-empty fields under their keys
MarshalAuthConfig(ac) ==
    LET present == {f \in DOMAIN AuthConfigKeys : ac[f] # <<>>}
    IN  [k \in {AuthConfigKeys[f] : f \in present} |->
            ac[CHOOSE f \in present : AuthConfigKeys[f] = k]]

\* json.Unmarshal(raw, &authCfg): known keys are read, the others are dropped
UnmarshalAuthConfig(raw) ==
    [f \in DOMAIN AuthConfigKeys |->
        IF AuthConfigKeys[f] \in DOMAIN raw THEN raw[AuthConfigKeys[f]] ELSE <<>>]

\* the key of a raw entry that is a JSON string and not an object: the entry is the
\* function from this key to the text of the string
jsonScalar == "#scalar"

\* a field's value is a JSON string; a JSON number -n is the sequence <<-n>>
IsJSONString(v) == \A i \in 1..Len(v) : v[i] >= 0

\* json.Unmarshal(raw, &authCfg) fails: raw is not an object, or a field of AuthConfig
\* holds a value that is not a string
UnmarshalTypeError(raw) ==
    \/ jsonScalar \in DOMAIN raw
    \/ \E f \in DOMAIN AuthConfigKeys :
          AuthConfigKeys[f] \in DOMAIN raw /\ ~IsJSONString(raw[AuthConfigKeys[f]])

--------------------------------------------------------------------------
(* Bounds and inputs *)

\* calls made on one store
MaxOps == 3

\* the server addresses the callers name; "s0" is in a loaded file only
Servers == {"s1", "s2"}

Str_u == <<117>>
Str_p == <<112>>
Str_r == <<114>>
Str_a == <<97>>

Cred(u, p, r, a) == [Username |-> u, Password |-> p, RefreshToken |-> r, AccessToken |-> a]

\* the credentials the callers put
Creds ==
    { Cred(Str_u, Str_p, <<>>, <<>>),              \* username and password
      Cred(Str_u, Str_p, Str_r, Str_a),            \* and both tokens
      Cred(<<117, 58>>, Str_p, <<>>, <<>>),        \* a username holding ':'
      Cred(Str_u, <<>>, <<>>, <<>>),               \* no password
      Cred(<<>>, <<>>, Str_r, <<>>),               \* a refresh token only
      EmptyCredential }

--------------------------------------------------------------------------
(* The config file on disk *)

NoFile == [exists |-> FALSE, dir |-> FALSE, complete |-> TRUE, doc |-> EmptyMap]

FileOf(doc) == [exists |-> TRUE, dir |-> FALSE, complete |-> TRUE, doc |-> doc]

\* a directory at the path
Directory == [exists |-> TRUE, dir |-> TRUE, complete |-> TRUE, doc |-> EmptyMap]

\* a file that holds only the beginning of doc: malformed JSON
PartOf(doc) == [exists |-> TRUE, dir |-> FALSE, complete |-> FALSE, doc |-> doc]

\* a file with a field and entries the code does not model, and legacy fields
DocUnknown ==
    ("someField" :> <<120>>) @@
    ("auths" :>
        (("s0" :> [auth |-> EncodeToString(<<111, 58, 113>>), email |-> <<101>>]) @@
         ("s2" :> [username |-> <<108>>, password |-> <<109>>, identitytoken |-> <<105>>])))

\* a file that configures helpers; the helper of s2 is the empty string
DocHelpers ==
    ("someField" :> <<120>>) @@
    ("credsStore" :> "store1") @@
    ("credHelpers" :> (("s1" :> "helper1") @@ ("s2" :> "")))

\* a file with a server-specific helper only
DocHelperOnly == ("credHelpers" :> ("s1" :> "helper1"))

\* a file with no authentication configured
DocNoAuth == ("someField" :> <<120>>)

--------------------------------------------------------------------------
(* internal/config.Config *)

configFieldAuths == "auths"
configFieldCredentialsStore == "credsStore"
configFieldCredentialHelpers == "credHelpers"

\* the fields of a Config that was not read from a file
NewConfig == [content |-> EmptyMap, authsCache |-> EmptyMap,
              credentialsStoreCache |-> "", credentialHelpersCache |-> EmptyMap]

\* LoadConfigFile failing when the path does not exist
LoadConfigFile_MissingIsError(f) ==
    IF ~f.exists \/ f.dir \/ ~f.complete
    THEN NewConfig @@ [err |-> "ErrInvalidConfigFormat"]
    ELSE [err |-> "nil",
          content |-> f.doc,
          credentialsStoreCache |-> MapGetString(f.doc, configFieldCredentialsStore),
          credentialHelpersCache |->
              IF configFieldCredentialHelpers \in DOMAIN f.doc
              THEN f.doc[configFieldCredentialHelpers] ELSE EmptyMap,
          authsCache |->
              IF configFieldAuths \in DOMAIN f.doc
              THEN f.doc[configFieldAuths] ELSE EmptyMap]

\* LoadConfigFile: the error, and the content and the three caches read from the path
\* (those of no Config if there is an error). os.Open succeeds on a directory and the
\* decoder's read of it fails, as does the decoding of malformed JSON. The fields of
\* the documents are of the types the schema gives them.
LoadConfigFile(f) ==
    IF ~f.exists
    THEN NewConfig @@ [err |-> "nil"]
    ELSE IF f.dir \/ ~f.complete
    THEN NewConfig @@ [err |-> "ErrInvalidConfigFormat"]
    ELSE [err |-> "nil",
          content |-> f.doc,
          credentialsStoreCache |->
              IF configFieldCredentialsStore \in DOMAIN f.doc
              THEN f.doc[configFieldCredentialsStore] ELSE "",
          credentialHelpersCache |->
              IF configFieldCredentialHelpers \in DOMAIN f.doc
              THEN f.doc[configFieldCredentialHelpers] ELSE EmptyMap,
          authsCache |->
              IF configFieldAuths \in DOMAIN f.doc
              THEN f.doc[configFieldAuths] ELSE EmptyMap]

\* GetAuthConfig taking what json.Unmarshal could read when it fails
GetAuthConfig_IgnoreUnmarshalError(cache, serverAddress) ==
    IF serverAddress \notin DOMAIN cache
    THEN [authCfg |-> UnmarshalAuthConfig(EmptyMap), err |-> "nil"]
    ELSE [authCfg |-> UnmarshalAuthConfig(cache[serverAddress]), err |-> "nil"]

\* GetAuthConfig: the entry of serverAddress, the zero AuthConfig if there is none or
\* if the entry cannot be unmarshalled
GetAuthConfig(cache, serverAddress) ==
    IF serverAddress \notin DOMAIN cache
    THEN [authCfg |-> UnmarshalAuthConfig(EmptyMap), err |-> "nil"]
    ELSE IF UnmarshalTypeError(cache[serverAddress])
    THEN [authCfg |-> UnmarshalAuthConfig(EmptyMap), err |-> "ErrInvalidConfigFormat"]
    ELSE [authCfg |-> UnmarshalAuthConfig(cache[serverAddress]), err |-> "nil"]

\* PutAuthConfig: the cache after the entry is set (saveFile follows)
\* PutAuthConfig keeping the fields of the old entry that the new one does not set
PutAuthConfig_Merge(cache, serverAddress, authCfg) ==
    MapPut(cache, serverAddress,
           MarshalAuthConfig(authCfg) @@
               (IF serverAddress \in DOMAIN cache THEN cache[serverAddress] ELSE EmptyMap))

PutAuthConfig(cache, serverAddress, authCfg) ==
    MapPut(cache, serverAddress, MarshalAuthConfig(authCfg))

\* DeleteAuthConfig without its early return: it saves whether or not the key is there
DeleteAuthConfig_AlwaysSave(cache, serverAddress) ==
    [cache |-> MapDelete(cache, serverAddress), save |-> TRUE]

\* DeleteAuthConfig: the cache after the call, and whether saveFile is called
DeleteAuthConfig(cache, serverAddress) ==
    IF serverAddress \notin DOMAIN cache
    THEN [cache |-> cache, save |-> FALSE]
    ELSE [cache |-> MapDelete(cache, serverAddress), save |-> TRUE]

GetCredentialHelpers(helpers, serverAddress) == MapGetString(helpers, serverAddress)

\* IsAuthConfigured counting an entry of auths only if it is not an empty object
IsAuthConfigured_NonEmptyEntries(credsStore, helpers, cache) ==
    \/ credsStore # ""
    \/ Cardinality(DOMAIN helpers) > 0
    \/ \E s \in DOMAIN cache : DOMAIN cache[s] # {}

IsAuthConfigured(credsStore, helpers, cache) ==
    credsStore # "" \/ Cardinality(DOMAIN helpers) > 0 \/ Cardinality(DOMAIN cache) > 0

\* saveFile marshalling a document of the three known fields only
MarshalContent_KnownOnly(c, credsStore, helpers, cache) ==
    (configFieldAuths :> cache) @@
    (IF credsStore # "" THEN configFieldCredentialsStore :> credsStore ELSE EmptyMap) @@
    (IF Cardinality(DOMAIN helpers) > 0
     THEN configFieldCredentialHelpers :> helpers ELSE EmptyMap)

\* saveFile writing credsStore and credHelpers also when they are empty
MarshalContent_NoOmit(c, credsStore, helpers, cache) ==
    MapPut(MapPut(MapPut(c, configFieldCredentialsStore, credsStore),
                  configFieldCredentialHelpers, helpers),
           configFieldAuths, cache)

\* saveFile leaving the credHelpers out of the document
MarshalContent_NoHelpers(c, credsStore, helpers, cache) ==
    LET c1 == IF credsStore # ""
              THEN MapPut(c, configFieldCredentialsStore, credsStore)
              ELSE MapDelete(c, configFieldCredentialsStore)
    IN  MapPut(MapDelete(c1, configFieldCredentialHelpers), configFieldAuths, cache)

\* saveFile, first half: Config.content after the caches are marshalled into it
MarshalContent(c, credsStore, helpers, cache) ==
    LET c1 == IF credsStore # ""
              THEN MapPut(c, configFieldCredentialsStore, credsStore)
              ELSE MapDelete(c, configFieldCredentialsStore)
        c2 == IF Cardinality(DOMAIN helpers) > 0
              THEN MapPut(c1, configFieldCredentialHelpers, helpers)
              ELSE MapDelete(c1, configFieldCredentialHelpers)
    IN  MapPut(c2, configFieldAuths, cache)

\* how a saveFile can end: MkdirAll, Ingest or Rename fails, or none does
SaveOutcomes == {"ok", "mkdir", "ingest", "rename"}

\* when saveFile is one step: it succeeds, or fails and leaves the path as it was
SaveEnds == {"ok", "rename"}

SaveErr(io) == IF io = "ok" THEN "nil" ELSE "IOError"

\* a Config and its file: the fields of Config, the path on disk, and two counters
CurrentConfig ==
    [content |-> content, authsCache |-> authsCache,
     credentialsStoreCache |-> credentialsStoreCache,
     credentialHelpersCache |-> credentialHelpersCache,
     file |-> file, writes |-> writes, saveFailed |-> saveFailed]

\* saveFile marshalling the auths only, as the saveFile of the stand-alone FileStore does
saveFile_AuthsOnly(cfg, io) ==
    LET doc == MapPut(cfg.content, configFieldAuths, cfg.authsCache)
    IN  [cfg EXCEPT !.content = doc,
                    !.file = IF io = "ok" THEN FileOf(doc) ELSE @,
                    !.writes = IF io = "ok" THEN @ + 1 ELSE @,
                    !.saveFailed = (@ \/ io # "ok")]

\* saveFile as one step, ending as io: the ingest file is renamed over the path if
\* nothing failed and is removed otherwise
saveFile(cfg, io) ==
    LET doc == MarshalContent(cfg.content, cfg.credentialsStoreCache,
                              cfg.credentialHelpersCache, cfg.authsCache)
    IN  [cfg EXCEPT !.content = doc,
                    !.file = IF io = "ok" THEN FileOf(doc) ELSE @,
                    !.writes = IF io = "ok" THEN @ + 1 ELSE @,
                    !.saveFailed = (@ \/ io # "ok")]

\* PutCredentialsStore
\* PutCredentialsStore that saves without setting the field first
PutCredentialsStore_SaveOnly(cfg, credsStore, io) == saveFile(cfg, io)

PutCredentialsStore(cfg, credsStore, io) ==
    saveFile([cfg EXCEPT !.credentialsStoreCache = credsStore], io)

--------------------------------------------------------------------------
(* FileStore *)

\* FileStore.Get reporting a missing entry as an error
fsGet_MissingIsError(cache, serverAddress) ==
    LET r == GetAuthConfig(cache, serverAddress)
    IN  IF serverAddress \notin DOMAIN cache \/ r.err # "nil"
        THEN [cred |-> EmptyCredential, err |-> "ErrInvalidConfigFormat"]
        ELSE Credential(r.authCfg)

\* FileStore.Get
fsGet(cache, serverAddress) ==
    LET r == GetAuthConfig(cache, serverAddress)
    IN  IF serverAddress \notin DOMAIN cache
        THEN [cred |-> EmptyCredential, err |-> "nil"]
        ELSE IF r.err # "nil"
        THEN [cred |-> EmptyCredential, err |-> r.err]
        ELSE Credential(r.authCfg)

\* FileStore.Put testing DisablePut only after the cache is updated
fsPut_CheckAfterUpdate(disablePut, cache, serverAddress, cred) ==
    [err |-> IF disablePut THEN "ErrPlaintextPutDisabled" ELSE "nil",
     cache |-> PutAuthConfig(cache, serverAddress, NewAuthConfig(cred)),
     save |-> ~disablePut]

\* FileStore.Put up to the save: the error, the cache, whether saveFile is called
\* FileStore.Put without the test of DisablePut
fsPut_IgnoreDisablePut(disablePut, cache, serverAddress, cred) ==
    [err |-> "nil", cache |-> PutAuthConfig(cache, serverAddress, NewAuthConfig(cred)),
     save |-> TRUE]

fsPut(disablePut, cache, serverAddress, cred) ==
    IF disablePut
    THEN [err |-> "ErrPlaintextPutDisabled", cache |-> cache, save |-> FALSE]
    ELSE [err |-> "nil", cache |-> PutAuthConfig(cache, serverAddress, NewAuthConfig(cred)),
          save |-> TRUE]

\* FileStore.Delete up to the save
fsDelete(cache, serverAddress) == DeleteAuthConfig(cache, serverAddress)

\* FileStore.Put restoring the cache when the save fails
FileStorePut_RollBack(cfg, disablePut, serverAddress, cred, io) ==
    LET r == fsPut(disablePut, cfg.authsCache, serverAddress, cred)
    IN  IF r.save /\ io = "ok"
        THEN [cfg |-> saveFile([cfg EXCEPT !.authsCache = r.cache], io), err |-> SaveErr(io)]
        ELSE [cfg |-> [cfg EXCEPT !.saveFailed = (@ \/ r.save)],
              err |-> IF r.save THEN SaveErr(io) ELSE r.err]

\* FileStore.Put as one step: the config afterwards and the error returned
FileStorePut(cfg, disablePut, serverAddress, cred, io) ==
    LET r == fsPut(disablePut, cfg.authsCache, serverAddress, cred)
    IN  IF r.save
        THEN [cfg |-> saveFile([cfg EXCEPT !.authsCache = r.cache], io), err |-> SaveErr(io)]
        ELSE [cfg |-> [cfg EXCEPT !.authsCache = r.cache], err |-> r.err]

\* FileStore.Delete as one step
FileStoreDelete(cfg, serverAddress, io) ==
    LET r == fsDelete(cfg.authsCache, serverAddress)
    IN  IF r.save
        THEN [cfg |-> saveFile([cfg EXCEPT !.authsCache = r.cache], io), err |-> SaveErr(io)]
        ELSE [cfg |-> [cfg EXCEPT !.authsCache = r.cache], err |-> "nil"]

--------------------------------------------------------------------------
(* Callers *)

Procs == {"p1", "p2"}

NoLock == [writer |-> "none", readers |-> {}]

\* a caller's call: its arguments, the store chosen for it and the config that store
\* is built on, the lock of a receiver that is a copy, the document its save
\* marshalled, whether it is inside the function of setCredsStoreOnce, and its error
NoCall == [op |-> "none", server |-> "", cred |-> EmptyCredential, backend |-> "",
           config |-> "", lock |-> NoLock, doc |-> EmptyMap, inOnce |-> FALSE,
           err |-> "nil"]

\* the context of the tests, and one that is cancelled before the call
Contexts == {"Background", "cancelled"}

NoRet == [op |-> "none", server |-> "", cred |-> EmptyCredential, err |-> "nil",
          backend |-> "", consulted |-> <<>>, ctx |-> "Background"]

\* no fallback chain is in use
NoChain == [wrapped |-> FALSE, stores |-> <<>>]

NewOnce == [done |-> FALSE, m |-> "none"]

\* a Credential function that answers no host: the nil Credential of an auth.Client
NoCredentialFunc == [registry |-> "", cred |-> EmptyCredential]

\* auth.DefaultClient
DefaultClient == [type |-> "*auth.Client", Credential |-> NoCredentialFunc,
                  Cache |-> "DefaultCache"]

\* a registry whose Client is nil
NilClient == [type |-> "nil", Credential |-> NoCredentialFunc, Cache |-> "nil"]

\* the registries the callers log in to
RegistryNames == {"docker.io", "localhost:2333", "example.com"}

\* the caller's remote.Registry objects: one without a client, one with an *auth.Client
\* of the caller's own, one with a client of another type
Registries ==
    [n \in RegistryNames |->
        [Reference |-> n,
         Client |-> CASE n = "docker.io" -> NilClient
                      [] n = "localhost:2333" ->
                            [type |-> "*auth.Client",
                             Credential |-> [registry |-> n,
                                             cred |-> Cred(Str_u, Str_r, <<>>, <<>>)],
                             Cache |-> "callerCache"]
                      [] OTHER -> [type |-> "http.Client", Credential |-> NoCredentialFunc,
                                   Cache |-> "nil"]]]

\* no caller has loaded a Config of its own
NoInstances == [p \in Procs |-> NewConfig]

\* no caller is in a call and none has returned
Quiet ==
    /\ tmp = [p \in Procs |-> NoFile]
    /\ registry = Registries
    /\ instances = NoInstances
    /\ leftover = 0
    /\ rwLock = NoLock
    /\ pc = [p \in Procs |-> "idle"]
    /\ call = [p \in Procs |-> NoCall]
    /\ setCredsStoreOnce = NewOnce
    /\ writes = 0
    /\ touched = {}
    /\ setCalls = 0
    /\ saveFailed = FALSE
    /\ nops = 0
    /\ ret = NoRet

\* the config is the one LoadConfigFile reads from f
Loaded(f) ==
    /\ file = f
    /\ loaded = f
    /\ content = LoadConfigFile(f).content
    /\ authsCache = LoadConfigFile(f).authsCache
    /\ credentialsStoreCache = LoadConfigFile(f).credentialsStoreCache
    /\ credentialHelpersCache = LoadConfigFile(f).credentialHelpersCache

SetConfig(cfg) ==
    /\ content' = cfg.content
    /\ authsCache' = cfg.authsCache
    /\ credentialsStoreCache' = cfg.credentialsStoreCache
    /\ credentialHelpersCache' = cfg.credentialHelpersCache
    /\ file' = cfg.file
    /\ writes' = cfg.writes
    /\ saveFailed' = cfg.saveFailed

Returned(op, serverAddress, cred, err, backend) ==
    /\ nops < MaxOps
    /\ nops' = nops + 1
    /\ ret' = [op |-> op, server |-> serverAddress, cred |-> cred, err |-> err,
               backend |-> backend, consulted |-> <<>>, ctx |-> "Background"]

ConfigVars == <<content, authsCache, credentialsStoreCache, credentialHelpersCache,
                file, writes, saveFailed>>
SetupVars == <<DisablePut, AllowPlaintextPut, detectedCredsStore, platformDefault, loaded,
               sf, constructed, registry, instances>>
CallerVars == <<tmp, leftover, rwLock, pc, call>>

--------------------------------------------------------------------------
(* Spec: one caller of a FileStore; every call is one step *)

InitFiles == {NoFile, FileOf(EmptyMap), FileOf(DocUnknown), FileOf(DocHelpers)}

Init ==
    /\ \E f \in InitFiles : Loaded(f)
    /\ DisablePut \in BOOLEAN
    /\ AllowPlaintextPut = TRUE
    /\ detectedCredsStore = ""
    /\ platformDefault = ""
    /\ sf = NoChain
    /\ constructed = "FileStore"
    /\ native = EmptyMap
    /\ Quiet

FileStore_Get(serverAddress) ==
    LET r == fsGet(authsCache, serverAddress)
    IN  /\ Returned("Get", serverAddress, r.cred, r.err, "file")
        /\ UNCHANGED <<ConfigVars, SetupVars, CallerVars, touched, native,
                       setCredsStoreOnce, setCalls>>

FileStore_Put(serverAddress, cred) ==
    \E io \in SaveEnds :
        LET r == FileStorePut(CurrentConfig, DisablePut, serverAddress, cred, io)
        IN  /\ SetConfig(r.cfg)
            /\ touched' = touched \cup {serverAddress}
            /\ Returned("Put", serverAddress, cred, r.err, "file")
            /\ UNCHANGED <<SetupVars, CallerVars, native, setCredsStoreOnce, setCalls>>

FileStore_Delete(serverAddress) ==
    \E io \in SaveEnds :
        LET r == FileStoreDelete(CurrentConfig, serverAddress, io)
        IN  /\ SetConfig(r.cfg)
            /\ touched' = touched \cup {serverAddress}
            /\ Returned("Delete", serverAddress, EmptyCredential, r.err, "file")
            /\ UNCHANGED <<SetupVars, CallerVars, native, setCredsStoreOnce, setCalls>>

Next ==
    \/ \E s \in Servers : FileStore_Get(s)
    \/ \E s \in Servers, c \in Creds : FileStore_Put(s, c)
    \/ \E s \in Servers : FileStore_Delete(s)

Spec == Init /\ [][Next]_vars

--------------------------------------------------------------------------
(* Properties of the FileStore, under Spec *)

\* the step is a call returning
Returns(op) == nops' # nops /\ ret'.op = op

\* C1 (as stated in the specification): after a successful Put(s, cred) with a
\* non-empty username and password, Get(s) returns cred in all four fields and no
\* error.
C1_RoundTrip ==
    (/\ ret.op = "Put" /\ ret.err = "nil"
     /\ ret.cred.Username # <<>> /\ ret.cred.Password # <<>>)
    => fsGet(authsCache, ret.server) = [cred |-> ret.cred, err |-> "nil"]

\* C2: Get(s) for a server with no entry returns the empty credential and no error,
\* and changes neither the cache nor the content nor the file.
C2_GetAbsent ==
    [][(Returns("Get") /\ ret'.server \notin DOMAIN authsCache)
       => /\ ret'.cred = EmptyCredential
          /\ ret'.err = "nil"
          /\ UNCHANGED <<authsCache, content, file, writes>>]_vars

\* a Get of a missing server returned, on a store loaded from a file that holds
\* entries for other servers only
C2_Witness ==
    /\ ret.op = "Get" /\ ret.cred = EmptyCredential /\ ret.err = "nil"
    /\ ret.server \notin DOMAIN authsCache
    /\ loaded.exists /\ DOMAIN authsCache # {}

\* C3: Delete(s) for a server with no entry returns nil and writes no file (the file
\* is unchanged, and stays absent if it was); after any Delete(s), s has no entry, so
\* a second Delete(s) is such a call.
C3_DeleteAbsent ==
    [][/\ (Returns("Delete") /\ ret'.server \notin DOMAIN authsCache)
          => /\ ret'.err = "nil"
             /\ UNCHANGED <<authsCache, content, file, writes>>
       /\ Returns("Delete") => ret'.server \notin DOMAIN authsCache']_vars

\* a Delete returned on a store whose path never existed and whose cache never held
\* an entry
C3_Witness ==
    /\ ret.op = "Delete" /\ ret.err = "nil"
    /\ ~loaded.exists /\ ~file.exists /\ ~saveFailed /\ writes = 0

KnownFields == {configFieldAuths, configFieldCredentialsStore, configFieldCredentialHelpers}

\* the top-level fields of a document that the code does not model
OtherFields(doc) == [k \in (DOMAIN doc) \ KnownFields |-> doc[k]]

AuthsOf(doc) == IF configFieldAuths \in DOMAIN doc THEN doc[configFieldAuths] ELSE EmptyMap

\* the auths entries of the servers no Put or Delete has named
Untouched(auths) == [s \in (DOMAIN auths) \ touched |-> auths[s]]

\* C4: whatever Puts and Deletes were made, the fields other than auths, credsStore
\* and credHelpers are those of the loaded document, and so is the auths entry of
\* every server that no Put or Delete named, in the file and in memory.
C4_Preserved ==
    /\ OtherFields(file.doc) = OtherFields(loaded.doc)
    /\ OtherFields(content) = OtherFields(loaded.doc)
    /\ Untouched(AuthsOf(file.doc)) = Untouched(AuthsOf(loaded.doc))
    /\ Untouched(authsCache) = Untouched(AuthsOf(loaded.doc))

\* a file with unknown fields and entries was rewritten by a Put and then a Delete
C4_Witness ==
    /\ loaded.doc = DocUnknown
    /\ writes >= 2 /\ ret.op = "Delete" /\ ret.err = "nil"
    /\ touched = {"s1"}

\* C10: with DisablePut set, Put returns ErrPlaintextPutDisabled and changes nothing:
\* Get answers as before for every server, and the file is not written or created.
C10_PutDisabled ==
    [][(Returns("Put") /\ ret'.backend = "file" /\ DisablePut)
       => /\ ret'.err = "ErrPlaintextPutDisabled"
          /\ UNCHANGED <<authsCache, content, file, writes>>
          /\ \A s \in Servers : fsGet(authsCache', s) = fsGet(authsCache, s)]_vars

\* a Put was refused on a store whose file does not exist
C10_Witness ==
    /\ DisablePut /\ ret.op = "Put" /\ ret.err = "ErrPlaintextPutDisabled"
    /\ ~file.exists /\ writes = 0

--------------------------------------------------------------------------
(* nativeStore: a credential helper program and what it holds *)

\* the helpers that are installed
HelperNames == {"helper1", "store1", "pass"}

\* how an execution of the helper can end
HelperOutcomes == {"ok", "error"}

\* emptyUsername, "<token>"
emptyUsername == <<60, 116, 111, 107, 101, 110, 62>>

\* nativeStore.Put: the credentials handed to the helper
dockerCredOf(cred) ==
    IF cred.RefreshToken # <<>>
    THEN [Username |-> emptyUsername, Secret |-> cred.RefreshToken]
    ELSE [Username |-> cred.Username, Secret |-> cred.Password]

\* nativeStore.Get taking every answer of the helper as a username and a password
credOfDocker_BasicOnly(dockerCred) ==
    [EmptyCredential EXCEPT !.Username = dockerCred.Username,
                            !.Password = dockerCred.Secret]

\* nativeStore.Get: the credential made of the helper's answer
credOfDocker(dockerCred) ==
    IF dockerCred.Username = emptyUsername
    THEN [EmptyCredential EXCEPT !.RefreshToken = dockerCred.Secret]
    ELSE [EmptyCredential EXCEPT !.Username = dockerCred.Username,
                                 !.Password = dockerCred.Secret]

\* what a helper prints when it has no credentials for the server
errCredentialsNotFoundMessage == "credentials not found in native keychain"

\* how an execution of `helper get` can end: the helper answers, it fails, or it exits
\* with status 0 and prints something that is not JSON
GetOutcomes == {"ok", "error", "badjson"}

\* cmd.Output() of `helper get` for serverAddress, ending as hx: the exit status, the
\* text printed, whether that text is JSON, and the credentials it holds if it is
helperGet(nat, helper, serverAddress, hx) ==
    LET none == [Username |-> <<>>, Secret |-> <<>>]
    IN  IF hx = "error"
        THEN [exit |-> 1, msg |-> "program failed", json |-> FALSE, creds |-> none]
        ELSE IF hx = "badjson"
        THEN [exit |-> 0, msg |-> "json.Unmarshal failed", json |-> FALSE, creds |-> none]
        ELSE IF serverAddress \notin DOMAIN nat[helper]
        THEN [exit |-> 1, msg |-> errCredentialsNotFoundMessage, json |-> FALSE,
              creds |-> none]
        ELSE [exit |-> 0, msg |-> "", json |-> TRUE, creds |-> nat[helper][serverAddress]]

\* client.Get: the credentials of the helper's answer, or an error
clientGet(x) ==
    IF x.exit # 0
    THEN IF x.msg = errCredentialsNotFoundMessage
         THEN [creds |-> x.creds, err |-> "errCredentialsNotFound"]
         ELSE [creds |-> x.creds, err |-> "HelperError"]
    ELSE IF ~x.json THEN [creds |-> x.creds, err |-> "SyntaxError"]
    ELSE [creds |-> x.creds, err |-> "nil"]

\* nativeStore.Get returning the error of a helper that has no credentials
nativeGet_NotFoundIsError(nat, helper, serverAddress, hx) ==
    LET r == clientGet(helperGet(nat, helper, serverAddress, hx))
    IN  IF r.err # "nil" THEN [cred |-> EmptyCredential, err |-> r.err]
        ELSE [cred |-> credOfDocker(r.creds), err |-> "nil"]

\* nativeStore.Get
nativeGet(nat, helper, serverAddress, hx) ==
    LET r == clientGet(helperGet(nat, helper, serverAddress, hx))
    IN  IF r.err # "nil"
        THEN IF r.err = "errCredentialsNotFound"
             THEN [cred |-> EmptyCredential, err |-> "nil"]
             ELSE [cred |-> EmptyCredential, err |-> r.err]
        ELSE [cred |-> credOfDocker(r.creds), err |-> "nil"]

nativePut(nat, helper, serverAddress, cred, hx) ==
    IF hx # "ok" THEN [native |-> nat, err |-> "HelperError"]
    ELSE [native |-> [nat EXCEPT ![helper] = MapPut(@, serverAddress, dockerCredOf(cred))],
          err |-> "nil"]

nativeDelete(nat, helper, serverAddress, hx) ==
    IF hx # "ok" THEN [native |-> nat, err |-> "HelperError"]
    ELSE [native |-> [nat EXCEPT ![helper] = MapDelete(@, serverAddress)], err |-> "nil"]

--------------------------------------------------------------------------
(* dynamicStore *)

\* getHelperSuffix looking at credsStore before the server-specific helper
getHelperSuffix_CredsStoreFirst(helpers, credsStore, detected, serverAddress) ==
    IF credsStore # "" THEN credsStore
    ELSE IF GetCredentialHelpers(helpers, serverAddress) # ""
    THEN GetCredentialHelpers(helpers, serverAddress)
    ELSE detected

getHelperSuffix(helpers, credsStore, detected, serverAddress) ==
    IF GetCredentialHelpers(helpers, serverAddress) # ""
    THEN GetCredentialHelpers(helpers, serverAddress)
    ELSE IF credsStore # "" THEN credsStore
    ELSE detected

\* the config of the dynamicStore, loaded once by NewStore
dsConfig == "ds.config"

\* a file store that is built on a config of its own
newFileStore_OwnConfig(config) == [config |-> "own", DisablePut |-> FALSE]

\* newFileStore: a file store on the given config
newFileStore(config) == [config |-> config, DisablePut |-> FALSE]

\* getStore that uses the detected helper only once it is in credsStore
getStore_ConfigOnly(helpers, credsStore, detected, serverAddress) ==
    LET helper == getHelperSuffix(helpers, credsStore, "", serverAddress)
    IN  IF helper # "" THEN [kind |-> "native", helper |-> helper, config |-> ""]
        ELSE [kind |-> "file", helper |-> "", config |-> newFileStore(dsConfig).config]

\* getStore: a nativeStore of the helper, or the file store on the config of the
\* dynamicStore
getStore(helpers, credsStore, detected, serverAddress) ==
    LET helper == getHelperSuffix(helpers, credsStore, detected, serverAddress)
    IN  IF helper # "" THEN [kind |-> "native", helper |-> helper, config |-> ""]
        ELSE [kind |-> "file", helper |-> "", config |-> newFileStore(dsConfig).config]

BackendName(store) == IF store.kind = "native" THEN store.helper ELSE "file"

\* NewStore: the default helper is looked for only if no authentication is configured
DetectedAtLoad(f, default) ==
    LET c == LoadConfigFile(f)
    IN  IF ~IsAuthConfigured(c.credentialsStoreCache, c.credentialHelpersCache,
                             c.authsCache)
        THEN default ELSE ""

\* how the backend's part of a call can end
BackendOutcomes(store) == IF store.kind = "native" THEN HelperOutcomes ELSE SaveEnds

\* dynamicStore.Get as one step
dsGet(cfg, nat, detected, serverAddress, o1) ==
    LET store == getStore(cfg.credentialHelpersCache, cfg.credentialsStoreCache,
                          detected, serverAddress)
    IN  IF store.kind = "native"
        THEN nativeGet(nat, store.helper, serverAddress, o1)
        ELSE fsGet(cfg.authsCache, serverAddress)

\* the function given to setCredsStoreOnce.Do: the config afterwards, the error, and
\* whether PutCredentialsStore was called
setCredsStore(cfg, detected, o2) ==
    IF detected # ""
    THEN [cfg |-> PutCredentialsStore(cfg, detected, o2),
          err |-> IF o2 = "ok" THEN "nil" ELSE "ErrSetCredsStore",
          called |-> 1]
    ELSE [cfg |-> cfg, err |-> "nil", called |-> 0]

\* dynamicStore.Put using the latch before it looks at the error of store.Put
dsPut_LatchFirst(cfg, nat, once, detected, allowPlaintextPut, serverAddress, cred, o1, o2) ==
    LET store == getStore(cfg.credentialHelpersCache, cfg.credentialsStoreCache,
                          detected, serverAddress)
        n1 == IF store.kind = "native"
              THEN nativePut(nat, store.helper, serverAddress, cred, o1)
              ELSE [native |-> nat, err |-> "nil"]
        f1 == IF store.kind = "file"
              THEN FileStorePut(cfg, ~allowPlaintextPut, serverAddress, cred, o1)
              ELSE [cfg |-> cfg, err |-> "nil"]
        err1 == IF store.kind = "native" THEN n1.err ELSE f1.err
        s2 == setCredsStore(f1.cfg, detected, o2)
    IN  IF err1 # "nil"
        THEN [cfg |-> f1.cfg, native |-> n1.native, once |-> [once EXCEPT !.done = TRUE],
              err |-> err1, called |-> 0]
        ELSE IF once.done
        THEN [cfg |-> f1.cfg, native |-> n1.native, once |-> once, err |-> "nil",
              called |-> 0]
        ELSE [cfg |-> s2.cfg, native |-> n1.native, once |-> [once EXCEPT !.done = TRUE],
              err |-> s2.err, called |-> s2.called]

\* dynamicStore.Put as one step: store.Put ending as o1, then the once-function
\* ending as o2 if store.Put succeeded and the latch is not yet used
dsPut(cfg, nat, once, detected, allowPlaintextPut, serverAddress, cred, o1, o2) ==
    LET store == getStore(cfg.credentialHelpersCache, cfg.credentialsStoreCache,
                          detected, serverAddress)
        n1 == IF store.kind = "native"
              THEN nativePut(nat, store.helper, serverAddress, cred, o1)
              ELSE [native |-> nat, err |-> "nil"]
        f1 == IF store.kind = "file"
              THEN FileStorePut(cfg, ~allowPlaintextPut, serverAddress, cred, o1)
              ELSE [cfg |-> cfg, err |-> "nil"]
        err1 == IF store.kind = "native" THEN n1.err ELSE f1.err
        s2 == setCredsStore(f1.cfg, detected, o2)
    IN  IF err1 # "nil"
        THEN [cfg |-> f1.cfg, native |-> n1.native, once |-> once, err |-> err1,
              called |-> 0]
        ELSE IF once.done
        THEN [cfg |-> f1.cfg, native |-> n1.native, once |-> once, err |-> "nil",
              called |-> 0]
        ELSE [cfg |-> s2.cfg, native |-> n1.native, once |-> [once EXCEPT !.done = TRUE],
              err |-> s2.err, called |-> s2.called]

\* dynamicStore.Delete as one step
dsDelete(cfg, nat, detected, serverAddress, o1) ==
    LET store == getStore(cfg.credentialHelpersCache, cfg.credentialsStoreCache,
                          detected, serverAddress)
        n1 == nativeDelete(nat, store.helper, serverAddress, o1)
        f1 == FileStoreDelete(cfg, serverAddress, o1)
    IN  IF store.kind = "native"
        THEN [cfg |-> cfg, native |-> n1.native, err |-> n1.err]
        ELSE [cfg |-> f1.cfg, native |-> nat, err |-> f1.err]

--------------------------------------------------------------------------
(* DynSpec: one caller of a dynamicStore; every call is one step *)

DynFiles == {NoFile, FileOf(DocNoAuth), FileOf(DocHelpers), FileOf(DocHelperOnly),
             FileOf(DocUnknown)}

DynCreds == {Cred(Str_u, Str_p, <<>>, <<>>), Cred(<<>>, <<>>, Str_r, <<>>)}

DynInit ==
    /\ \E f \in DynFiles : Loaded(f)
    /\ platformDefault \in {"", "pass"}
    /\ sf = NoChain
    /\ constructed = "dynamicStore"
    /\ detectedCredsStore = DetectedAtLoad(file, platformDefault)
    /\ AllowPlaintextPut \in BOOLEAN
    /\ DisablePut = FALSE
    /\ native = [h \in HelperNames |-> EmptyMap]
    /\ Quiet

CurrentStore(serverAddress) ==
    getStore(credentialHelpersCache, credentialsStoreCache, detectedCredsStore,
             serverAddress)

ds_Get(serverAddress) ==
    \E o1 \in BackendOutcomes(CurrentStore(serverAddress)) :
        LET r == dsGet(CurrentConfig, native, detectedCredsStore, serverAddress, o1)
        IN  /\ Returned("Get", serverAddress, r.cred, r.err,
                        BackendName(CurrentStore(serverAddress)))
            /\ UNCHANGED <<ConfigVars, SetupVars, CallerVars, touched, native,
                           setCredsStoreOnce, setCalls>>

ds_Put(serverAddress, cred) ==
    \E o1 \in BackendOutcomes(CurrentStore(serverAddress)), o2 \in SaveEnds :
        LET r == dsPut(CurrentConfig, native, setCredsStoreOnce, detectedCredsStore,
                       AllowPlaintextPut, serverAddress, cred, o1, o2)
        IN  /\ SetConfig(r.cfg)
            /\ native' = r.native
            /\ setCredsStoreOnce' = r.once
            /\ setCalls' = setCalls + r.called
            /\ touched' = touched \cup {serverAddress}
            /\ Returned("Put", serverAddress, cred, r.err,
                        BackendName(CurrentStore(serverAddress)))
            /\ UNCHANGED <<SetupVars, CallerVars>>

ds_Delete(serverAddress) ==
    \E o1 \in BackendOutcomes(CurrentStore(serverAddress)) :
        LET r == dsDelete(CurrentConfig, native, detectedCredsStore, serverAddress, o1)
        IN  /\ SetConfig(r.cfg)
            /\ native' = r.native
            /\ touched' = touched \cup {serverAddress}
            /\ Returned("Delete", serverAddress, EmptyCredential, r.err,
                        BackendName(CurrentStore(serverAddress)))
            /\ UNCHANGED <<SetupVars, CallerVars, setCredsStoreOnce, setCalls>>

DynNext ==
    \/ \E s \in Servers : ds_Get(s)
    \/ \E s \in Servers, c \in DynCreds : ds_Put(s, c)
    \/ \E s \in Servers : ds_Delete(s)

DynSpec == DynInit /\ [][DynNext]_vars

--------------------------------------------------------------------------
(* Properties of the dynamicStore *)

\* the loaded document configures authentication: a credsStore, a helper or an entry
AuthConfiguredAtLoad ==
    /\ loaded.exists
    /\ \/ MapGetString(loaded.doc, "credsStore") # ""
       \/ ("credHelpers" \in DOMAIN loaded.doc /\ DOMAIN loaded.doc["credHelpers"] # {})
       \/ ("auths" \in DOMAIN loaded.doc /\ DOMAIN loaded.doc["auths"] # {})

\* the backend for a server address, by the four steps in their order
ExpectedBackend(s) ==
    IF s \in DOMAIN credentialHelpersCache /\ credentialHelpersCache[s] # ""
    THEN credentialHelpersCache[s]
    ELSE IF credentialsStoreCache # "" THEN credentialsStoreCache
    ELSE IF platformDefault # "" /\ ~AuthConfiguredAtLoad THEN platformDefault
    ELSE "file"

\* C5: for every server address the dynamicStore selects the helper of credHelpers[s]
\* if that is non-empty, else the helper of credsStore if non-empty, else the platform
\* default helper if one was detected and the loaded document configured no
\* authentication, else the file store; an empty credHelpers entry counts as not set.
C5_BackendSelection ==
    \A s \in Servers : BackendName(CurrentStore(s)) = ExpectedBackend(s)

\* a Put went to the global helper for a server whose credHelpers entry is empty
C5_Witness ==
    /\ ret.op = "Put" /\ ret.err = "nil"
    /\ ret.server = "s2" /\ ret.backend = "store1"
    /\ "s2" \in DOMAIN credentialHelpersCache /\ credentialHelpersCache["s2"] = ""
    /\ "s2" \in DOMAIN native["store1"]

\* the credsStore field of the file at the config path
FileCredsStore(f) == IF f.exists THEN MapGetString(f.doc, "credsStore") ELSE ""

\* this step is the return of the first Put that succeeded at the backend
FirstBackendPut ==
    /\ Returns("Put") /\ ret'.err # "HelperError"
    /\ ~setCredsStoreOnce.done

GetDeleteLeaveCredsStore ==
    (Returns("Get") \/ Returns("Delete")) =>
        /\ credentialsStoreCache' = credentialsStoreCache
        /\ FileCredsStore(file') = FileCredsStore(file)

\* C6 as stated: with the detected default helper as backend, Get and Delete never
\* write credsStore, and when the first Put that succeeds at the backend returns,
\* credsStore is the detected helper name both in memory and in the file.
C6_Original ==
    [][detectedCredsStore # "" =>
        /\ GetDeleteLeaveCredsStore
        /\ FirstBackendPut =>
              /\ credentialsStoreCache' = detectedCredsStore
              /\ FileCredsStore(file') = detectedCredsStore]_vars

\* C6 amended: with the detected default helper as backend, Get and Delete never write
\* credsStore; when the first Put that succeeds at the backend returns, credsStore is
\* the detected helper name in memory, and it is that name in the file too if the Put
\* returned nil; if it returned an error the file is as it was before the Put.
C6_FirstPutSetsCredsStore ==
    [][detectedCredsStore # "" =>
        /\ GetDeleteLeaveCredsStore
        /\ FirstBackendPut =>
              /\ credentialsStoreCache' = detectedCredsStore
              /\ ret'.err = "nil" => FileCredsStore(file') = detectedCredsStore
              /\ ret'.err # "nil" => file' = file]_vars

\* the first Put returned nil and the detected helper is in memory and in the file
C6_Witness ==
    /\ ret.op = "Put" /\ ret.err = "nil" /\ ret.backend = "pass"
    /\ detectedCredsStore = "pass" /\ setCalls = 1 /\ setCredsStoreOnce.done
    /\ credentialsStoreCache = "pass"
    /\ file.exists /\ FileCredsStore(file) = "pass"

--------------------------------------------------------------------------
(* ConcSpec: two callers of one dynamicStore; a call is a sequence of steps *)

MaxCalls == 2

ConcFiles == {NoFile, FileOf(DocNoAuth)}

ConcCreds == {Cred(Str_u, Str_p, <<>>, <<>>), Cred(<<>>, <<>>, Str_r, <<>>)}

ConcInit ==
    /\ \E f \in ConcFiles : Loaded(f)
    /\ platformDefault \in {"", "pass"}
    /\ sf = NoChain
    /\ constructed = "dynamicStore"
    /\ detectedCredsStore = DetectedAtLoad(file, platformDefault)
    /\ AllowPlaintextPut = TRUE
    /\ DisablePut = FALSE
    /\ native = [h \in HelperNames |-> EmptyMap]
    /\ Quiet

\* sync.RWMutex.Lock can return
CanLock_Always(lock) == TRUE

CanLock(lock) == lock.writer = "none" /\ lock.readers = {}

\* sync.RWMutex.RLock can return
CanRLock(lock) == lock.writer = "none"

\* the mutex of sync.Once can be taken
OnceMutexFree_NoMutex(once) == TRUE

OnceMutexFree(once) == once.m = "none"

\* the name of the file Ingest writes to: a fresh temporary file of the caller
ingestName_ConfigPath(p) == "config"

ingestName(p) == p

\* Ingest, when io.Copy fails: the name its deferred function hands to os.Remove. The
\* return statement has set the named result path to "" before that function runs.
ingestRemoved(name) == ""

\* the file system: the file at the config path and the callers' temporary files
FileAt(name) == IF name = "config" THEN file ELSE tmp[name]

WriteFileAt(name, f) ==
    IF name = "config"
    THEN file' = f /\ tmp' = tmp
    ELSE file' = file /\ tmp' = [tmp EXCEPT ![name] = f]

\* os.Rename(from, cfg.path) and os.Remove(name)
RenameToConfig(from) ==
    /\ file' = FileAt(from)
    /\ tmp' = IF from \in Procs THEN [tmp EXCEPT ![from] = NoFile] ELSE tmp

Goto(p, label) == pc' = [pc EXCEPT ![p] = label]

\* the call of p returns
Return(p, cred, err) ==
    /\ Goto(p, "idle")
    /\ call' = [call EXCEPT ![p].err = err]
    /\ ret' = [op |-> call[p].op, server |-> call[p].server, cred |-> cred, err |-> err,
               backend |-> call[p].backend, consulted |-> <<>>, ctx |-> "Background"]

\* a step of p inside its call, ending with error err so far
Step(p, label, err) ==
    /\ Goto(p, label)
    /\ call' = [call EXCEPT ![p].err = err]
    /\ ret' = ret

ConcOps == {"Get", "Put", "Delete"}

\* Get, Put or Delete is called: getStore, and FileStore.Put's check of DisablePut
c_Call(p, op, serverAddress, cred) ==
    /\ pc[p] = "idle" /\ nops < MaxCalls
    /\ CanRLock(rwLock)
    /\ nops' = nops + 1
    /\ touched' = IF op = "Get" THEN touched ELSE touched \cup {serverAddress}
    /\ LET store == CurrentStore(serverAddress)
           c == [op |-> op, server |-> serverAddress, cred |-> cred,
                 backend |-> BackendName(store), config |-> store.config,
                 lock |-> NoLock, doc |-> EmptyMap, inOnce |-> FALSE,
                 err |-> "nil"]
           disabled == store.kind = "file" /\ op = "Put" /\ ~AllowPlaintextPut
       IN  /\ call' = [call EXCEPT ![p] =
                          IF disabled THEN [c EXCEPT !.err = "ErrPlaintextPutDisabled"]
                          ELSE c]
           /\ Goto(p, IF disabled THEN "idle"
                      ELSE IF store.kind = "native" THEN "native"
                      ELSE IF op = "Get" THEN "read" ELSE "lock")
           /\ ret' = IF disabled
                     THEN [op |-> op, server |-> serverAddress, cred |-> cred,
                           err |-> "ErrPlaintextPutDisabled", backend |-> "file",
                           consulted |-> <<>>, ctx |-> "Background"]
                     ELSE ret
    /\ UNCHANGED <<ConfigVars, SetupVars, tmp, leftover, rwLock, native, setCredsStoreOnce,
                   setCalls>>

\* the helper is executed for the call
c_Native(p) ==
    /\ pc[p] = "native"
    /\ \E hx \in HelperOutcomes :
        LET c == call[p]
            g == nativeGet(native, c.backend, c.server, hx)
            w == IF c.op = "Put" THEN nativePut(native, c.backend, c.server, c.cred, hx)
                 ELSE nativeDelete(native, c.backend, c.server, hx)
        IN  IF c.op = "Get"
            THEN native' = native /\ Return(p, g.cred, g.err)
            ELSE /\ native' = w.native
                 /\ IF c.op = "Put" /\ w.err = "nil"
                    THEN Step(p, "once_check", "nil")
                    ELSE Return(p, EmptyCredential, w.err)
    /\ UNCHANGED <<ConfigVars, SetupVars, tmp, leftover, rwLock, setCredsStoreOnce, setCalls,
                   touched, nops>>

\* FileStore.Get: GetAuthConfig under the read lock
c_Read(p) ==
    /\ pc[p] = "read" /\ CanRLock(rwLock)
    /\ LET r == fsGet(authsCache, call[p].server)
       IN  Return(p, r.cred, r.err)
    /\ UNCHANGED <<ConfigVars, SetupVars, tmp, leftover, rwLock, native, setCredsStoreOnce,
                   setCalls, touched, nops>>

\* PutAuthConfig, DeleteAuthConfig or PutCredentialsStore takes the write lock, changes
\* the cache and marshals the content (the first half of saveFile)
c_Lock(p) ==
    /\ pc[p] = "lock" /\ CanLock(rwLock)
    /\ rwLock' = [rwLock EXCEPT !.writer = p]
    /\ LET c == call[p]
           d == DeleteAuthConfig(authsCache, c.server)
           cache == IF c.inOnce THEN authsCache
                    ELSE IF c.op = "Put"
                    THEN PutAuthConfig(authsCache, c.server, NewAuthConfig(c.cred))
                    ELSE d.cache
           save == c.inOnce \/ c.op = "Put" \/ d.save
           credsStore == IF c.inOnce THEN detectedCredsStore ELSE credentialsStoreCache
           doc == MarshalContent(content, credsStore, credentialHelpersCache, cache)
       IN  /\ authsCache' = cache
           /\ credentialsStoreCache' = credsStore
           /\ setCalls' = IF c.inOnce THEN setCalls + 1 ELSE setCalls
           /\ content' = IF save THEN doc ELSE content
           /\ call' = [call EXCEPT ![p].doc = IF save THEN doc ELSE EmptyMap]
           /\ Goto(p, IF save THEN "mkdir" ELSE "unlock")
    /\ UNCHANGED <<credentialHelpersCache, file, writes, saveFailed, SetupVars, tmp, leftover,
                   native, setCredsStoreOnce, touched, nops, ret>>

\* a step of saveFile failed
SaveFails(p) ==
    /\ saveFailed' = TRUE
    /\ Step(p, "unlock", "IOError")

SaveVars == <<content, authsCache, credentialsStoreCache, credentialHelpersCache,
              SetupVars, rwLock, native, setCredsStoreOnce, setCalls, touched, nops>>

\* os.MkdirAll
c_MkdirAll(p) ==
    /\ pc[p] = "mkdir"
    /\ \/ Step(p, "create", "nil") /\ saveFailed' = saveFailed
       \/ SaveFails(p)
    /\ UNCHANGED <<SaveVars, file, tmp, leftover, writes>>

\* Ingest: os.CreateTemp
c_CreateTemp(p) ==
    /\ pc[p] = "create"
    /\ \/ /\ WriteFileAt(ingestName(p), PartOf(EmptyMap))
          /\ Step(p, "copy", "nil") /\ saveFailed' = saveFailed
       \/ SaveFails(p) /\ UNCHANGED <<file, tmp>>
    /\ UNCHANGED <<SaveVars, writes, leftover>>

\* Ingest: io.Copy. If it fails, the file it wrote to is no longer the ingest file of
\* the save; it is removed if the deferred function removes it and is left over if not
c_Copy(p) ==
    /\ pc[p] = "copy"
    /\ \/ /\ WriteFileAt(ingestName(p), FileOf(call[p].doc))
          /\ Step(p, "rename", "nil") /\ saveFailed' = saveFailed
          /\ leftover' = leftover
       \/ /\ SaveFails(p) /\ WriteFileAt(ingestName(p), NoFile)
          /\ leftover' = IF ingestRemoved(ingestName(p)) = ingestName(p)
                         THEN leftover ELSE leftover + 1
    /\ UNCHANGED <<SaveVars, writes>>

\* os.Rename, and the removal of the ingest file if it fails
c_Rename(p) ==
    /\ pc[p] = "rename"
    /\ \/ /\ RenameToConfig(ingestName(p))
          /\ writes' = writes + 1
          /\ Step(p, "unlock", "nil") /\ saveFailed' = saveFailed
       \/ SaveFails(p) /\ WriteFileAt(ingestName(p), NoFile) /\ writes' = writes
    /\ UNCHANGED <<SaveVars, leftover>>

\* the deferred Unlock; a Put that succeeded goes on to setCredsStoreOnce.Do
c_Unlock(p) ==
    /\ pc[p] = "unlock"
    /\ rwLock' = [rwLock EXCEPT !.writer = "none"]
    /\ IF call[p].inOnce THEN Step(p, "once_done", call[p].err)
       ELSE IF call[p].op = "Put" /\ call[p].err = "nil" THEN Step(p, "once_check", "nil")
       ELSE Return(p, EmptyCredential, call[p].err)
    /\ UNCHANGED <<ConfigVars, SetupVars, tmp, leftover, native, setCredsStoreOnce, setCalls,
                   touched, nops>>

\* sync.Once.Do: the check of done without the mutex
c_OnceCheck(p) ==
    /\ pc[p] = "once_check"
    /\ IF setCredsStoreOnce.done THEN Return(p, EmptyCredential, "nil")
       ELSE Step(p, "once_lock", "nil")
    /\ UNCHANGED <<ConfigVars, SetupVars, tmp, leftover, rwLock, native, setCredsStoreOnce,
                   setCalls, touched, nops>>

\* sync.Once.doSlow: the mutex is taken and done is checked again; the function
\* does nothing if no helper was detected
c_OnceLock(p) ==
    /\ pc[p] = "once_lock" /\ OnceMutexFree(setCredsStoreOnce)
    /\ IF setCredsStoreOnce.done
       THEN /\ setCredsStoreOnce' = setCredsStoreOnce
            /\ Return(p, EmptyCredential, "nil")
       ELSE IF detectedCredsStore = ""
       THEN /\ setCredsStoreOnce' = [setCredsStoreOnce EXCEPT !.done = TRUE]
            /\ Return(p, EmptyCredential, "nil")
       ELSE /\ setCredsStoreOnce' = [setCredsStoreOnce EXCEPT !.m = p]
            /\ Goto(p, "lock")
            /\ call' = [call EXCEPT ![p].inOnce = TRUE]
            /\ ret' = ret
    /\ UNCHANGED <<ConfigVars, SetupVars, tmp, leftover, rwLock, native, setCalls, touched, nops>>

\* a latch that is consumed only if the function succeeded
c_OnceDone_RetryOnError(p) ==
    /\ pc[p] = "once_done"
    /\ setCredsStoreOnce' = [done |-> call[p].err = "nil", m |-> "none"]
    /\ Return(p, EmptyCredential,
              IF call[p].err = "nil" THEN "nil" ELSE "ErrSetCredsStore")
    /\ UNCHANGED <<ConfigVars, SetupVars, tmp, leftover, rwLock, native, setCalls, touched, nops>>

\* the function has returned: done is set, the mutex released, and Put returns
c_OnceDone(p) ==
    /\ pc[p] = "once_done"
    /\ setCredsStoreOnce' = [done |-> TRUE, m |-> "none"]
    /\ Return(p, EmptyCredential,
              IF call[p].err = "nil" THEN "nil" ELSE "ErrSetCredsStore")
    /\ UNCHANGED <<ConfigVars, SetupVars, tmp, leftover, rwLock, native, setCalls, touched, nops>>

ConcNext ==
    \E p \in Procs :
        \/ \E op \in ConcOps, s \in Servers, c \in ConcCreds : c_Call(p, op, s, c)
        \/ c_Native(p)
        \/ c_Read(p)
        \/ c_Lock(p)
        \/ c_MkdirAll(p)
        \/ c_CreateTemp(p)
        \/ c_Copy(p)
        \/ c_Rename(p)
        \/ c_Unlock(p)
        \/ c_OnceCheck(p)
        \/ c_OnceLock(p)
        \/ c_OnceDone(p)

ConcSpec == ConcInit /\ [][ConcNext]_vars

--------------------------------------------------------------------------
(* Properties of concurrent callers *)

\* C7: for any number of Put calls by concurrent callers of one dynamicStore, the
\* write of the detected helper name into credsStore is executed at most once, and the
\* config document is never written twice for that purpose.
C7_SetCredsStoreOnce ==
    /\ setCalls <= 1
    /\ detectedCredsStore # "" => writes <= 1

\* both callers' Puts succeeded at the helper and have returned; credsStore was set
\* once and the document written once
C7_Witness ==
    /\ \A p \in Procs : pc[p] = "idle" /\ call[p].op = "Put" /\ call[p].err = "nil"
    /\ detectedCredsStore = "pass" /\ setCredsStoreOnce.done
    /\ setCalls = 1 /\ writes = 1
    /\ FileCredsStore(file) = "pass"

\* C8: at every instant, also while a save is in progress and after a save that
\* failed at any step, the file at the config path is absent, the complete previous
\* document or the complete new document; it is never a partially written document.
C8_AtomicSave ==
    /\ [](file.exists => file.complete)
    /\ [][file' # file =>
            \E p \in Procs : /\ pc[p] = "rename" /\ pc'[p] = "unlock"
                             /\ file' = FileOf(call[p].doc)]_vars

\* a save failed after its temporary file was written, and the file at the config
\* path is still the complete document of the save before it
C8_Witness ==
    /\ saveFailed /\ writes = 1
    /\ \E p \in Procs : pc[p] = "unlock" /\ call[p].err = "IOError"
                        /\ call[p].doc # file.doc /\ ~tmp[p].exists
    /\ file.exists /\ file.complete /\ file.doc # loaded.doc

\* the steps of a call between taking the write lock and releasing it
LockedSteps == {"mkdir", "create", "copy", "rename", "unlock"}

\* the credential stored for s in a cache of auths, as Get reads it
StoredIn(auths, s) == fsGet(auths, s)

FileAuths == LoadConfigFile(file).authsCache

\* both callers made one call, a Put on the file store, and both returned nil
BothPut ==
    /\ nops = 2
    /\ \A p \in Procs : /\ pc[p] = "idle" /\ call[p].op = "Put"
                        /\ call[p].backend = "file" /\ call[p].err = "nil"

\* C9: Put, Delete and setting credsStore hold the write lock for the whole
\* mutate-then-save sequence, so no update is lost: after concurrent successful
\* Put(s1, c1) and Put(s2, c2) on one instance, cache and file contain both entries
\* if s1 # s2, and exactly one of the two credentials, the same one in cache and file,
\* if s1 = s2.
C9_NoLostUpdate ==
    /\ \A p \in Procs : pc[p] \in LockedSteps => rwLock.writer = p
    /\ BothPut =>
        LET a == call["p1"]
            b == call["p2"]
        IN  IF a.server # b.server
            THEN \A c \in {a, b} :
                    /\ c.server \in DOMAIN authsCache /\ c.server \in DOMAIN FileAuths
                    /\ StoredIn(authsCache, c.server) = [cred |-> c.cred, err |-> "nil"]
                    /\ StoredIn(FileAuths, c.server) = [cred |-> c.cred, err |-> "nil"]
            ELSE \E c \in {a, b} :
                    /\ c.server \in DOMAIN authsCache /\ c.server \in DOMAIN FileAuths
                    /\ StoredIn(authsCache, c.server) = [cred |-> c.cred, err |-> "nil"]
                    /\ StoredIn(FileAuths, c.server) = [cred |-> c.cred, err |-> "nil"]

\* two Puts for different servers overlapped and both entries are in cache and file
C9_Witness ==
    /\ BothPut
    /\ call["p1"].server = "s1" /\ call["p2"].server = "s2"
    /\ call["p1"].cred # call["p2"].cred
    /\ DOMAIN authsCache = {"s1", "s2"} /\ FileAuths = authsCache
    /\ writes = 2 /\ ret.server = "s1"

--------------------------------------------------------------------------
(* Properties of the dynamicStore: plaintext Put *)

\* C11: on a dynamicStore ErrPlaintextPutDisabled is returned only by Put, and exactly
\* when no helper resolves for the server address and AllowPlaintextPut is false; Get
\* and Delete for such an address still work on the file store, and a Put for an
\* address that resolves to a helper never returns it.
C11_PlaintextPutDisabled ==
    [][nops' # nops =>
        LET s == ret'.server
            onFile == ExpectedBackend(s) = "file"
        IN  /\ ret'.err = "ErrPlaintextPutDisabled"
                <=> (ret'.op = "Put" /\ onFile /\ ~AllowPlaintextPut)
            /\ (onFile /\ ret'.op = "Get") =>
                  /\ ret'.backend = "file"
                  /\ [cred |-> ret'.cred, err |-> ret'.err] = fsGet(authsCache, s)
            /\ (onFile /\ ret'.op = "Delete") =>
                  /\ ret'.backend = "file"
                  /\ s \notin DOMAIN authsCache'
                  /\ native' = native
                  /\ (s \in DOMAIN authsCache /\ ret'.err = "nil") =>
                        s \notin DOMAIN LoadConfigFile(file').authsCache]_vars

\* plaintext Put is not allowed: a Delete removed the entry of s2 from the file, and
\* then a Put on the file store was refused
C11_Witness ==
    /\ ~AllowPlaintextPut /\ loaded = FileOf(DocUnknown)
    /\ ret.op = "Put" /\ ret.backend = "file" /\ ret.err = "ErrPlaintextPutDisabled"
    /\ writes = 1 /\ "s2" \notin DOMAIN authsCache
    /\ "s2" \notin DOMAIN LoadConfigFile(file).authsCache

--------------------------------------------------------------------------
(* storeWithFallbacks: a primary store and its fallbacks; the stores are helpers *)

\* NewStoreWithFallbacks that forgets the primary store
NewStoreWithFallbacks_FallbacksOnly(primary, fallbacks) ==
    [wrapped |-> TRUE, stores |-> fallbacks]

\* NewStoreWithFallbacks: the primary itself if there is no fallback
NewStoreWithFallbacks(primary, fallbacks) ==
    IF Len(fallbacks) = 0
    THEN [wrapped |-> FALSE, stores |-> <<primary>>]
    ELSE [wrapped |-> TRUE, stores |-> <<primary>> \o fallbacks]

\* a call of a store of the chain, and how it ended
Consulted(store, o) == <<[store |-> store, out |-> o]>>

\* the loop of Get going on after a store's error
RECURSIVE sfGetFrom_SkipOnError(_, _, _, _, _)
sfGetFrom_SkipOnError(nat, stores, serverAddress, out, i) ==
    IF i > Len(stores)
    THEN [cred |-> EmptyCredential, err |-> "nil", consulted |-> <<>>]
    ELSE LET r == nativeGet(nat, stores[i], serverAddress, out[i])
             rest == sfGetFrom_SkipOnError(nat, stores, serverAddress, out, i + 1)
         IN  IF r.err = "nil" /\ r.cred # EmptyCredential
             THEN [cred |-> r.cred, err |-> "nil",
                   consulted |-> Consulted(stores[i], out[i])]
             ELSE [rest EXCEPT !.consulted = Consulted(stores[i], out[i]) \o @]

\* the loop of Get preferring the credential of a later store
RECURSIVE sfGetFrom_LaterFirst(_, _, _, _, _)
sfGetFrom_LaterFirst(nat, stores, serverAddress, out, i) ==
    IF i > Len(stores)
    THEN [cred |-> EmptyCredential, err |-> "nil", consulted |-> <<>>]
    ELSE LET r == nativeGet(nat, stores[i], serverAddress, out[i])
             rest == sfGetFrom_LaterFirst(nat, stores, serverAddress, out, i + 1)
         IN  IF r.err # "nil"
             THEN [cred |-> EmptyCredential, err |-> r.err,
                   consulted |-> Consulted(stores[i], out[i])]
             ELSE IF r.cred # EmptyCredential /\ (rest.err # "nil" \/ rest.cred = EmptyCredential)
             THEN [cred |-> r.cred, err |-> "nil",
                   consulted |-> Consulted(stores[i], out[i])]
             ELSE [rest EXCEPT !.consulted = Consulted(stores[i], out[i]) \o @]

\* the loop of storeWithFallbacks.Get from the i-th store on; out[i] is how the Get of
\* the i-th store ends if it is called
RECURSIVE sfGetFrom(_, _, _, _, _)
sfGetFrom(nat, stores, serverAddress, out, i) ==
    IF i > Len(stores)
    THEN [cred |-> EmptyCredential, err |-> "nil", consulted |-> <<>>]
    ELSE LET r == nativeGet(nat, stores[i], serverAddress, out[i])
             rest == sfGetFrom(nat, stores, serverAddress, out, i + 1)
         IN  IF r.err # "nil"
             THEN [cred |-> EmptyCredential, err |-> r.err,
                   consulted |-> Consulted(stores[i], out[i])]
             ELSE IF r.cred # EmptyCredential
             THEN [cred |-> r.cred, err |-> "nil",
                   consulted |-> Consulted(stores[i], out[i])]
             ELSE [rest EXCEPT !.consulted = Consulted(stores[i], out[i]) \o @]

\* Get on what NewStoreWithFallbacks returned
sfGet(nat, chain, serverAddress, out) ==
    IF chain.wrapped
    THEN sfGetFrom(nat, chain.stores, serverAddress, out, 1)
    ELSE LET r == nativeGet(nat, chain.stores[1], serverAddress, out[1])
         IN  [cred |-> r.cred, err |-> r.err,
              consulted |-> Consulted(chain.stores[1], out[1])]

\* Put on what NewStoreWithFallbacks returned: sf.stores[0].Put
sfPut(nat, chain, serverAddress, cred, o) ==
    IF Len(chain.stores) = 0
    THEN [native |-> nat, err |-> "panic", consulted |-> <<>>]
    ELSE LET r == nativePut(nat, chain.stores[1], serverAddress, cred, o)
         IN  [native |-> r.native, err |-> r.err,
              consulted |-> Consulted(chain.stores[1], o)]

\* Delete that erases the server from every store of the chain
sfDelete_EveryStore(nat, chain, serverAddress, o) ==
    [native |-> IF o = "ok"
                THEN [h \in DOMAIN nat |->
                        IF \E i \in 1..Len(chain.stores) : chain.stores[i] = h
                        THEN MapDelete(nat[h], serverAddress) ELSE nat[h]]
                ELSE nat,
     err |-> IF o = "ok" THEN "nil" ELSE "HelperError",
     consulted |-> Consulted(chain.stores[1], o)]

\* Delete on what NewStoreWithFallbacks returned: sf.stores[0].Delete
sfDelete(nat, chain, serverAddress, o) ==
    IF Len(chain.stores) = 0
    THEN [native |-> nat, err |-> "panic", consulted |-> <<>>]
    ELSE LET r == nativeDelete(nat, chain.stores[1], serverAddress, o)
         IN  [native |-> r.native, err |-> r.err,
              consulted |-> Consulted(chain.stores[1], o)]

--------------------------------------------------------------------------
(* FbSpec: one caller of a fallback chain of helpers; every call is one step *)

primaryStore == "helper1"

\* the fallbacks a chain can be built with, in their order
FbFallbacks == <<"store1", "pass">>

\* the credential a store may hold for s1 from the start
FbHeld(store) ==
    IF store = "helper1" THEN Cred(Str_u, Str_p, <<>>, <<>>)
    ELSE IF store = "store1" THEN Cred(<<>>, <<>>, Str_r, <<>>)
    ELSE Cred(Str_p, Str_u, <<>>, <<>>)

FbCreds == {Cred(Str_a, Str_p, <<>>, <<>>), EmptyCredential}

InChain(chain, store) == \E i \in 1..Len(chain.stores) : chain.stores[i] = store

FbInit ==
    /\ \E n \in 0..Len(FbFallbacks) :
          sf = NewStoreWithFallbacks(primaryStore, SubSeq(FbFallbacks, 1, n))
    /\ constructed = IF sf.wrapped THEN "storeWithFallbacks" ELSE "nativeStore"
    /\ native \in [HelperNames -> {EmptyMap} \cup
                      {[s \in {"s1"} |-> dockerCredOf(FbHeld(h))] : h \in HelperNames}]
    /\ \A h \in HelperNames :
          /\ native[h] # EmptyMap => native[h]["s1"] = dockerCredOf(FbHeld(h))
          /\ ~InChain(sf, h) => native[h] = EmptyMap
    /\ Loaded(NoFile)
    /\ DisablePut = FALSE
    /\ AllowPlaintextPut = FALSE
    /\ detectedCredsStore = ""
    /\ platformDefault = ""
    /\ Quiet

\* how the calls of the stores of the chain end
FbOutcomes == [1..Len(sf.stores) -> HelperOutcomes]

FbReturned(op, serverAddress, cred, err, consulted) ==
    /\ nops < MaxOps
    /\ nops' = nops + 1
    /\ ret' = [op |-> op, server |-> serverAddress, cred |-> cred, err |-> err,
               backend |-> IF consulted = <<>> THEN ""
                           ELSE consulted[Len(consulted)].store,
               consulted |-> consulted, ctx |-> "Background"]

FbVars == <<ConfigVars, SetupVars, CallerVars, setCredsStoreOnce, setCalls>>

sf_Get(serverAddress) ==
    \E out \in FbOutcomes :
        LET r == sfGet(native, sf, serverAddress, out)
        IN  /\ FbReturned("Get", serverAddress, r.cred, r.err, r.consulted)
            /\ UNCHANGED <<FbVars, native, touched>>

sf_Put(serverAddress, cred) ==
    \E o \in HelperOutcomes :
        LET r == sfPut(native, sf, serverAddress, cred, o)
        IN  /\ native' = r.native
            /\ FbReturned("Put", serverAddress, cred, r.err, r.consulted)
            /\ touched' = touched \cup {serverAddress}
            /\ UNCHANGED FbVars

sf_Delete(serverAddress) ==
    \E o \in HelperOutcomes :
        LET r == sfDelete(native, sf, serverAddress, o)
        IN  /\ native' = r.native
            /\ FbReturned("Delete", serverAddress, EmptyCredential, r.err, r.consulted)
            /\ touched' = touched \cup {serverAddress}
            /\ UNCHANGED FbVars

FbNext ==
    \/ \E s \in Servers : sf_Get(s)
    \/ \E s \in Servers, c \in FbCreds : sf_Put(s, c)
    \/ \E s \in Servers : sf_Delete(s)

FbSpec == FbInit /\ [][FbNext]_vars

--------------------------------------------------------------------------
(* Properties of the fallback chain *)

\* what Get(s) of the i-th store of the chain returns when it returns no error
StoreGets(i, s) == nativeGet(native, sf.stores[i], s, "ok").cred

\* the stores of the chain whose Get(s) returns a non-sentinel credential
Finders(s) == {i \in 1..Len(sf.stores) : StoreGets(i, s) # EmptyCredential}

Least(S) == CHOOSE i \in S : \A j \in S : i <= j

\* the names of the stores called, in the order of the calls
StoresCalled(consulted) == [i \in 1..Len(consulted) |-> consulted[i].store]

NoErrorIn(consulted) == \A i \in 1..Len(consulted) : consulted[i].out = "ok"

\* C12: Get(s) on a fallback chain returns the credential of the first store in list
\* order whose Get(s) returns a non-sentinel credential, without consulting any later
\* store; if every store returns the sentinel, the chain returns the sentinel and no
\* error.
C12_FirstFound ==
    (ret.op = "Get" /\ NoErrorIn(ret.consulted)) =>
        /\ ret.err = "nil"
        /\ IF Finders(ret.server) = {}
           THEN /\ ret.cred = EmptyCredential
                /\ StoresCalled(ret.consulted) = sf.stores
           ELSE LET k == Least(Finders(ret.server))
                IN  /\ ret.cred = StoreGets(k, ret.server)
                    /\ StoresCalled(ret.consulted) = SubSeq(sf.stores, 1, k)

\* the primary returned the sentinel for an entry it holds, the first fallback
\* answered, and the second fallback, which holds a credential too, was not called
C12_Witness ==
    /\ Len(sf.stores) = 3 /\ ret.op = "Get" /\ ret.server = "s1" /\ ret.err = "nil"
    /\ "s1" \in DOMAIN native[primaryStore]
    /\ ret.cred = FbHeld("store1") /\ Len(ret.consulted) = 2
    /\ StoreGets(3, "s1") = FbHeld("pass")

\* C13: if during Get(s) on a fallback chain the Get of a store returns an error before
\* any earlier store returned a non-sentinel credential, the chain returns the sentinel
\* and that error at once and consults no later store, even when a later store holds a
\* credential for s.
C13_ErrorStops ==
    \A i \in 1..Len(ret.consulted) :
        (ret.op = "Get" /\ ret.consulted[i].out = "error") =>
            /\ i = Len(ret.consulted)
            /\ StoresCalled(ret.consulted) = SubSeq(sf.stores, 1, i)
            /\ \A j \in 1..(i - 1) : StoreGets(j, ret.server) = EmptyCredential
            /\ ret.cred = EmptyCredential
            /\ ret.err = "HelperError"

\* the Get of the first fallback failed while the second fallback holds a credential
C13_Witness ==
    /\ Len(sf.stores) = 3 /\ ret.op = "Get" /\ ret.server = "s1"
    /\ Len(ret.consulted) = 2 /\ ret.consulted[2].out = "error"
    /\ ret.err = "HelperError" /\ ret.cred = EmptyCredential
    /\ StoreGets(2, "s1") # EmptyCredential /\ StoreGets(3, "s1") # EmptyCredential

\* C14: Put and Delete on a fallback chain call only the primary store and leave the
\* content of every fallback store unchanged; after Delete(k) on the chain, Get(k) on
\* the chain still returns a fallback's credential for k when a fallback holds one.
C14_PrimaryOnly ==
    [][/\ (Returns("Put") \/ Returns("Delete")) =>
            /\ StoresCalled(ret'.consulted) = <<sf.stores[1]>>
            /\ \A h \in HelperNames : h # sf.stores[1] => native'[h] = native[h]
       /\ ( /\ ret.op = "Delete" /\ ret.err = "nil"
            /\ Returns("Get") /\ ret'.server = ret.server
            /\ NoErrorIn(ret'.consulted)
            /\ Finders(ret.server) \ {1} # {} ) =>
                ret'.cred = StoreGets(Least(Finders(ret.server) \ {1}), ret.server)
      ]_vars

\* after Put and Delete of s1 on the chain the primary holds nothing for s1, and Get
\* returned the credential of the second fallback
C14_Witness ==
    /\ Len(sf.stores) = 3 /\ nops = 3 /\ ret.op = "Get" /\ ret.server = "s1"
    /\ touched = {"s1"}
    /\ "s1" \notin DOMAIN native[primaryStore]
    /\ "s1" \notin DOMAIN native["store1"]
    /\ loaded = NoFile /\ ret.cred = FbHeld("pass") /\ Len(ret.consulted) = 3

\* C15: NewStoreWithFallbacks(primary) with no fallbacks returns the primary store
\* itself, so every Get, Put and Delete on the result has the results, errors and
\* effects of the same call on primary.
C15_NoFallbacks ==
    [][(sf = NewStoreWithFallbacks(primaryStore, <<>>) /\ nops' # nops) =>
        /\ ~sf.wrapped /\ sf.stores = <<primaryStore>>
        /\ \E o \in HelperOutcomes :
            /\ ret'.consulted = Consulted(primaryStore, o)
            /\ ret'.op = "Get" =>
                 /\ nativeGet(native, primaryStore, ret'.server, o)
                        = [cred |-> ret'.cred, err |-> ret'.err]
                 /\ native' = native
            /\ ret'.op = "Put" =>
                 nativePut(native, primaryStore, ret'.server, ret'.cred, o)
                     = [native |-> native', err |-> ret'.err]
            /\ ret'.op = "Delete" =>
                 nativeDelete(native, primaryStore, ret'.server, o)
                     = [native |-> native', err |-> ret'.err]]_vars

\* on a chain without fallbacks a Get returned what a Put had stored in the primary
C15_Witness ==
    /\ Len(sf.stores) = 1 /\ ~sf.wrapped
    /\ ret.op = "Get" /\ ret.server = "s2" /\ ret.err = "nil"
    /\ ret.cred = Cred(Str_a, Str_p, <<>>, <<>>)
    /\ ret.consulted = Consulted(primaryStore, "ok")

--------------------------------------------------------------------------
(* LoadSpec: NewStore on what is at the config path, then one caller of the store *)

\* an entry that is an empty object
DocEmptyEntry == [auths |-> [s \in {"s1"} |-> EmptyMap]]

\* auths and credHelpers are present and have no keys
DocEmptyFields == [auths |-> EmptyMap, credHelpers |-> EmptyMap]

\* an entry with auth, both tokens, the legacy fields and a field that is not modelled
DocLegacy ==
    [auths |-> [s \in {"s1"} |->
        [auth |-> encodeAuth(Str_u, Str_p), username |-> <<108>>, password |-> <<109>>,
         identitytoken |-> <<105>>, registrytoken |-> <<116>>, email |-> <<101>>]]]

\* an entry whose auth is not base64, with legacy fields
DocBadAuth ==
    [auths |-> [s \in {"s1"} |->
        [auth |-> <<33>>, username |-> <<108>>, password |-> <<109>>]]]

\* an entry whose auth is the base64 of a text without ':', and a well-formed entry
DocNoColon ==
    [auths |-> (("s1" :> [auth |-> EncodeToString(<<117, 112>>), username |-> <<108>>]) @@
                ("s2" :> [auth |-> encodeAuth(Str_u, Str_p)]))]

\* an entry that is a string, and an entry whose username and password are numbers
DocInvalid ==
    [auths |-> (("s1" :> (jsonScalar :> <<119>>)) @@
                ("s2" :> [username |-> <<-1234>>, password |-> <<-5678>>]))]

LoadFiles == {NoFile, Directory, PartOf(DocUnknown), FileOf(EmptyMap), FileOf(DocNoAuth),
              FileOf(DocEmptyEntry), FileOf(DocEmptyFields), FileOf(DocLegacy),
              FileOf(DocBadAuth), FileOf(DocNoColon), FileOf(DocInvalid),
              FileOf(DocUnknown), FileOf(DocHelperOnly)}

LoadCreds == {Cred(Str_u, Str_p, <<>>, <<>>), Cred(<<>>, <<>>, Str_r, Str_a)}

LoadInit ==
    /\ file \in LoadFiles
    /\ constructed = "nil"
    /\ loaded = NoFile
    /\ content = NewConfig.content
    /\ authsCache = NewConfig.authsCache
    /\ credentialsStoreCache = NewConfig.credentialsStoreCache
    /\ credentialHelpersCache = NewConfig.credentialHelpersCache
    /\ platformDefault \in {"", "pass"}
    /\ detectedCredsStore = ""
    /\ AllowPlaintextPut = TRUE
    /\ DisablePut = FALSE
    /\ sf = NoChain
    /\ native = [h \in HelperNames |-> EmptyMap]
    /\ Quiet

\* NewStore: LoadConfigFile, and the detection of the default helper
NewStore ==
    /\ constructed = "nil" /\ nops = 0
    /\ LET c == LoadConfigFile(file)
       IN  /\ constructed' = IF c.err = "nil" THEN "dynamicStore" ELSE "nil"
           /\ loaded' = IF c.err = "nil" THEN file ELSE loaded
           /\ content' = c.content
           /\ authsCache' = c.authsCache
           /\ credentialsStoreCache' = c.credentialsStoreCache
           /\ credentialHelpersCache' = c.credentialHelpersCache
           /\ detectedCredsStore' = IF c.err = "nil"
                                    THEN DetectedAtLoad(file, platformDefault) ELSE ""
           /\ Returned("NewStore", "", EmptyCredential, c.err, "")
    /\ UNCHANGED <<file, writes, saveFailed, DisablePut, AllowPlaintextPut,
                   platformDefault, sf, CallerVars, native, setCredsStoreOnce, setCalls,
                   touched, registry, instances>>

LoadNext ==
    \/ NewStore
    \/ constructed = "dynamicStore" /\ \E s \in Servers : ds_Get(s)
    \/ constructed = "dynamicStore" /\ \E s \in Servers, c \in LoadCreds : ds_Put(s, c)
    \/ constructed = "dynamicStore" /\ \E s \in Servers : ds_Delete(s)

LoadSpec == LoadInit /\ [][LoadNext]_vars

\* C16: loading a config path that does not exist succeeds and yields an empty config
\* (no auth entries, empty credsStore, no credHelpers) without creating the file;
\* loading a path that is a directory or holds malformed JSON fails with an error that
\* wraps ErrInvalidConfigFormat, and no store is returned.
C16_Load ==
    [][Returns("NewStore") =>
        /\ ~file.exists =>
              /\ ret'.err = "nil" /\ constructed' # "nil"
              /\ DOMAIN authsCache' = {} /\ DOMAIN credentialHelpersCache' = {}
              /\ credentialsStoreCache' = ""
              /\ ~file'.exists
        /\ (file.exists /\ (file.dir \/ ~file.complete)) =>
              /\ ret'.err = "ErrInvalidConfigFormat" /\ constructed' = "nil"]_vars

\* NewStore was called on a path that does not exist, and a Get on the store it
\* returned found nothing and left the path as it was
C16_Witness ==
    /\ constructed = "dynamicStore" /\ loaded = NoFile /\ ~file.exists
    /\ DOMAIN authsCache = {} /\ credentialsStoreCache = ""
    /\ ret.op = "Get" /\ ret.err = "nil" /\ ret.cred = EmptyCredential

\* C17: IsAuthConfigured is true if and only if credsStore is non-empty, or credHelpers
\* has a key, or auths has a key; a key of auths counts even when its entry is an empty
\* object, and an auths or credHelpers field that is present without keys does not.
\* NewStore looks for the default helper exactly when it is false.
C17_IsAuthConfigured ==
    constructed = "dynamicStore" =>
        /\ IsAuthConfigured(credentialsStoreCache, credentialHelpersCache, authsCache)
              <=> \/ credentialsStoreCache # ""
                  \/ \E s \in Servers \cup {"s0"} : s \in DOMAIN credentialHelpersCache
                  \/ \E s \in Servers \cup {"s0"} : s \in DOMAIN authsCache
        /\ detectedCredsStore = IF AuthConfiguredAtLoad THEN "" ELSE platformDefault

\* the only entry of the loaded document is an empty object, and the default helper
\* that is installed was not taken
C17_Witness ==
    /\ constructed = "dynamicStore" /\ loaded = FileOf(DocEmptyEntry)
    /\ platformDefault = "pass" /\ detectedCredsStore = ""
    /\ ret.op = "Get" /\ ret.backend = "file" /\ ret.server = "s1"
    /\ ret.cred = EmptyCredential

\* this step wrote a document to the config path
Saved == writes' # writes

\* C18 as stated: in every document written by save, each of auths, credsStore and
\* credHelpers is present only if its cached value is non-empty; with an empty auths
\* map the document has no auths field.
C18_Original ==
    [][Saved =>
        /\ configFieldAuths \in DOMAIN file'.doc => DOMAIN authsCache' # {}
        /\ configFieldCredentialsStore \in DOMAIN file'.doc => credentialsStoreCache' # ""
        /\ configFieldCredentialHelpers \in DOMAIN file'.doc
              => DOMAIN credentialHelpersCache' # {}]_vars

\* C18 amended: in every document written by save, credsStore and credHelpers are
\* present if and only if their cached values are non-empty, and auths is always
\* present and holds the cached auths map, also when that map is empty.
C18_WrittenFields ==
    [][Saved =>
        /\ configFieldAuths \in DOMAIN file'.doc
        /\ file'.doc[configFieldAuths] = authsCache'
        /\ configFieldCredentialsStore \in DOMAIN file'.doc <=> credentialsStoreCache' # ""
        /\ configFieldCredentialHelpers \in DOMAIN file'.doc
              <=> DOMAIN credentialHelpersCache' # {}]_vars

\* the last entry was deleted and the document written has an auths field without keys
C18_Witness ==
    /\ loaded = FileOf(DocEmptyEntry) /\ writes = 1
    /\ ret.op = "Delete" /\ ret.server = "s1" /\ ret.err = "nil"
    /\ DOMAIN authsCache = {}
    /\ configFieldAuths \in DOMAIN file.doc /\ DOMAIN file.doc[configFieldAuths] = {}
    /\ configFieldCredentialsStore \notin DOMAIN file.doc

\* the value of a field of an entry of auths, empty if the entry has no such field
EntryField(entry, k) == IF k \in DOMAIN entry THEN entry[k] ELSE <<>>

\* the entry is an object and those of its fields that Get reads are strings
WellTyped(entry) ==
    /\ jsonScalar \notin DOMAIN entry
    /\ \A k \in {"auth", "identitytoken", "registrytoken", "username", "password"} :
          k \in DOMAIN entry => \A i \in 1..Len(entry[k]) : entry[k][i] >= 0

\* C19: for an entry (an object with string fields) whose auth field is non-empty, Get
\* returns the username and password decoded from auth and ignores the entry's legacy
\* username and password fields (if auth cannot be decoded Get fails and does not fall
\* back on them); the legacy fields are used only when auth is empty.
C19_AuthOverLegacy ==
    [][(/\ Returns("Get") /\ ret'.backend = "file" /\ ret'.server \in DOMAIN authsCache
        /\ WellTyped(authsCache[ret'.server])) =>
        LET entry == authsCache[ret'.server]
            d == decodeAuth(EntryField(entry, "auth"))
        IN  IF EntryField(entry, "auth") = <<>>
            THEN /\ ret'.err = "nil"
                 /\ ret'.cred.Username = EntryField(entry, "username")
                 /\ ret'.cred.Password = EntryField(entry, "password")
            ELSE IF d.err = "nil"
            THEN /\ ret'.err = "nil"
                 /\ ret'.cred.Username = d.username
                 /\ ret'.cred.Password = d.password
            ELSE /\ ret'.err = "ErrInvalidConfigFormat"
                 /\ ret'.cred = EmptyCredential]_vars

\* Get of an entry with auth and legacy fields returned the decoded username and
\* password, which differ from the legacy ones
C19_Witness ==
    /\ loaded = FileOf(DocLegacy) /\ ret.op = "Get" /\ ret.server = "s1"
    /\ ret.backend = "file" /\ ret.err = "nil" /\ writes = 0
    /\ ret.cred = Cred(Str_u, Str_p, <<105>>, <<116>>)
    /\ authsCache["s1"]["username"] = <<108>>

\* the entry Put is to leave for cred: auth, identitytoken and registrytoken, each
\* only if not empty
EntryOf(cred) ==
    LET v == [auth |-> encodeAuth(cred.Username, cred.Password),
              identitytoken |-> cred.RefreshToken,
              registrytoken |-> cred.AccessToken]
    IN  [k \in {k \in DOMAIN v : v[k] # <<>>} |-> v[k]]

\* C20: Put(s, cred) on a server that already has an entry replaces the whole entry:
\* afterwards the entry of s holds only auth = encode(username, password), identitytoken
\* = refresh token and registrytoken = access token of cred, empty values omitted; no
\* legacy field, token or other field of the previous entry remains.
C20_PutReplaces ==
    [][(Returns("Put") /\ ret'.backend = "file" /\ ret'.server \in DOMAIN authsCache) =>
        /\ ret'.server \in DOMAIN authsCache'
        /\ authsCache'[ret'.server] = EntryOf(ret'.cred)
        /\ ret'.err = "nil" =>
              file'.doc[configFieldAuths][ret'.server] = EntryOf(ret'.cred)]_vars

\* an entry with auth, tokens, legacy fields and email was replaced by one with tokens
C20_Witness ==
    /\ loaded = FileOf(DocLegacy) /\ ret.op = "Put" /\ ret.server = "s1"
    /\ ret.err = "nil" /\ writes = 1 /\ nops = 2
    /\ authsCache["s1"] = [identitytoken |-> Str_r, registrytoken |-> Str_a]
    /\ file.doc[configFieldAuths]["s1"] = authsCache["s1"]

\* the entry cannot be decoded: it is not an object, one of its AuthConfig fields is not
\* a string, or its auth is not base64 or is the base64 of a text without ':'
Undecodable(entry) ==
    \/ ~WellTyped(entry)
    \/ /\ EntryField(entry, "auth") # <<>>
       /\ \/ ~DecodeString(entry["auth"]).ok
          \/ IndexOf(DecodeString(entry["auth"]).bytes, Colon, 1) = 0

\* C21: Get(s) on an entry that cannot be decoded (auth is not valid base64, the decoded
\* auth has no ':', or the entry is not a well-formed auth object) returns the empty
\* credential and an error wrapping ErrInvalidConfigFormat and changes nothing; the
\* store stays usable: a Get of a well-formed entry returns no error, also right after
\* a Get that failed, and a Put on the undecodable entry makes it decodable.
C21_UndecodableEntry ==
    [][/\ (Returns("Get") /\ ret'.backend = "file" /\ ret'.server \in DOMAIN authsCache) =>
            IF Undecodable(authsCache[ret'.server])
            THEN /\ ret'.cred = EmptyCredential
                 /\ ret'.err = "ErrInvalidConfigFormat"
                 /\ UNCHANGED <<authsCache, content, file, writes, constructed>>
            ELSE /\ ret'.err = "nil"
                 /\ ret'.cred.RefreshToken
                        = EntryField(authsCache[ret'.server], "identitytoken")
       /\ (Returns("Put") /\ ret'.backend = "file") =>
            ~Undecodable(authsCache'[ret'.server])]_vars

\* the Get of an entry whose auth decodes to a text without ':' failed, after a Get of
\* the well-formed entry next to it; nothing was written
C21_Witness ==
    /\ loaded = FileOf(DocNoColon) /\ nops = 3 /\ writes = 0
    /\ ret.op = "Get" /\ ret.server = "s1" /\ ret.err = "ErrInvalidConfigFormat"
    /\ ret.cred = EmptyCredential
    /\ fsGet(authsCache, "s2") = [cred |-> Cred(Str_u, Str_p, <<>>, <<>>), err |-> "nil"]

--------------------------------------------------------------------------
(* The temporary file of saveFile, under ConcSpec *)

\* C22 (as stated in the specification): whenever a save fails at a step after its
\* temporary file was created (writing the content or renaming it over the config
\* path), the temporary file no longer exists when the error is returned; after any
\* sequence of saves, successful or failed, no temporary file is left over.
C22_NoLeftoverTemp ==
    /\ leftover = 0
    /\ \A p \in Procs : pc[p] \notin {"copy", "rename"} => ~tmp[p].exists

--------------------------------------------------------------------------
(* CtxSpec: one caller of a dynamicStore who passes a context to every call *)

CtxFiles == {NoFile, FileOf(DocHelperOnly), FileOf(DocUnknown)}

CtxCreds == {Cred(Str_u, Str_p, <<>>, <<>>)}

CtxInit ==
    /\ \E f \in CtxFiles : Loaded(f)
    /\ platformDefault \in {"", "pass"}
    /\ sf = NoChain
    /\ constructed = "dynamicStore"
    /\ detectedCredsStore = DetectedAtLoad(file, platformDefault)
    /\ AllowPlaintextPut = TRUE
    /\ DisablePut = FALSE
    /\ native = [h \in HelperNames |-> EmptyMap]
    /\ Quiet

\* the helper executed whatever the context
CtxOutcomes_Ignored(store, ctx) == BackendOutcomes(store)

\* how the backend's part of a call can end under ctx: exec.CommandContext does not
\* start the helper when the context is done; the file store does not read its context
CtxOutcomes(store, ctx) ==
    IF store.kind = "native" /\ ctx = "cancelled" THEN {"error"}
    ELSE BackendOutcomes(store)

CtxReturned(op, serverAddress, cred, err, backend, ctx) ==
    /\ nops < MaxOps
    /\ nops' = nops + 1
    /\ ret' = [op |-> op, server |-> serverAddress, cred |-> cred, err |-> err,
               backend |-> backend, consulted |-> <<>>, ctx |-> ctx]

ctx_Get(ctx, serverAddress) ==
    \E o1 \in CtxOutcomes(CurrentStore(serverAddress), ctx) :
        LET r == dsGet(CurrentConfig, native, detectedCredsStore, serverAddress, o1)
        IN  /\ CtxReturned("Get", serverAddress, r.cred, r.err,
                           BackendName(CurrentStore(serverAddress)), ctx)
            /\ UNCHANGED <<ConfigVars, SetupVars, CallerVars, touched, native,
                           setCredsStoreOnce, setCalls>>

ctx_Put(ctx, serverAddress, cred) ==
    \E o1 \in CtxOutcomes(CurrentStore(serverAddress), ctx), o2 \in SaveEnds :
        LET r == dsPut(CurrentConfig, native, setCredsStoreOnce, detectedCredsStore,
                       AllowPlaintextPut, serverAddress, cred, o1, o2)
        IN  /\ SetConfig(r.cfg)
            /\ native' = r.native
            /\ setCredsStoreOnce' = r.once
            /\ setCalls' = setCalls + r.called
            /\ touched' = touched \cup {serverAddress}
            /\ CtxReturned("Put", serverAddress, cred, r.err,
                           BackendName(CurrentStore(serverAddress)), ctx)
            /\ UNCHANGED <<SetupVars, CallerVars>>

ctx_Delete(ctx, serverAddress) ==
    \E o1 \in CtxOutcomes(CurrentStore(serverAddress), ctx) :
        LET r == dsDelete(CurrentConfig, native, detectedCredsStore, serverAddress, o1)
        IN  /\ SetConfig(r.cfg)
            /\ native' = r.native
            /\ touched' = touched \cup {serverAddress}
            /\ CtxReturned("Delete", serverAddress, EmptyCredential, r.err,
                           BackendName(CurrentStore(serverAddress)), ctx)
            /\ UNCHANGED <<SetupVars, CallerVars, setCredsStoreOnce, setCalls>>

CtxNext ==
    \/ \E ctx \in Contexts, s \in Servers : ctx_Get(ctx, s)
    \/ \E ctx \in Contexts, s \in Servers, c \in CtxCreds : ctx_Put(ctx, s, c)
    \/ \E ctx \in Contexts, s \in Servers : ctx_Delete(ctx, s)

CtxSpec == CtxInit /\ [][CtxNext]_vars

\* this step is the return of a call that was given a cancelled context
CancelledCall == nops' # nops /\ ret'.ctx = "cancelled"

--------------------------------------------------------------------------
(* NativeSpec: one caller of a nativeStore; every call is one execution of the helper *)

\* the helper of the store
nsHelper == "pass"

\* basic auth, a refresh token only, both, and a user whose name is "<token>"
NativeCreds ==
    { Cred(Str_u, Str_p, <<>>, <<>>),
      Cred(<<>>, <<>>, Str_r, <<>>),
      Cred(Str_u, Str_p, Str_r, <<>>),
      Cred(emptyUsername, Str_p, <<>>, <<>>) }

NativeInit ==
    /\ Loaded(NoFile)
    /\ constructed = "nativeStore"
    /\ sf = NoChain
    /\ native \in {[h \in HelperNames |-> EmptyMap],
                   [h \in HelperNames |->
                       IF h = nsHelper
                       THEN [s \in {"s2"} |-> [Username |-> Str_a, Secret |-> Str_p]]
                       ELSE EmptyMap]}
    /\ DisablePut = FALSE
    /\ AllowPlaintextPut = FALSE
    /\ detectedCredsStore = ""
    /\ platformDefault = ""
    /\ Quiet

ns_Get(serverAddress) ==
    \E hx \in GetOutcomes :
        LET r == nativeGet(native, nsHelper, serverAddress, hx)
        IN  /\ FbReturned("Get", serverAddress, r.cred, r.err, Consulted(nsHelper, hx))
            /\ UNCHANGED <<FbVars, native, touched>>

ns_Put(serverAddress, cred) ==
    \E hx \in HelperOutcomes :
        LET r == nativePut(native, nsHelper, serverAddress, cred, hx)
        IN  /\ native' = r.native
            /\ FbReturned("Put", serverAddress, cred, r.err, Consulted(nsHelper, hx))
            /\ touched' = touched \cup {serverAddress}
            /\ UNCHANGED FbVars

ns_Delete(serverAddress) ==
    \E hx \in HelperOutcomes :
        LET r == nativeDelete(native, nsHelper, serverAddress, hx)
        IN  /\ native' = r.native
            /\ FbReturned("Delete", serverAddress, EmptyCredential, r.err,
                          Consulted(nsHelper, hx))
            /\ touched' = touched \cup {serverAddress}
            /\ UNCHANGED FbVars

NativeNext ==
    \/ \E s \in Servers : ns_Get(s)
    \/ \E s \in Servers, c \in NativeCreds : ns_Put(s, c)
    \/ \E s \in Servers : ns_Delete(s)

NativeSpec == NativeInit /\ [][NativeNext]_vars

\* how the execution of the helper for the call that returns in this step ended
Execution == ret'.consulted[1].out

--------------------------------------------------------------------------
(* ExecSpec: one caller of the nativeStore that runs its helper through an Executer *)

\* executable.Execute(ctx, input, action) ending as hx: what the helper holds afterwards,
\* the credentials printed by a get, and the error; the error of a helper that exits
\* with a message is errors.New(message)
Execute(nat, helper, action, serverAddress, dockerCred, hx) ==
    LET none == [Username |-> <<>>, Secret |-> <<>>]
    IN  IF hx # "ok"
        THEN [native |-> nat, creds |-> none, err |-> "HelperError"]
        ELSE IF action = "store"
        THEN [native |-> [nat EXCEPT ![helper] = MapPut(@, serverAddress, dockerCred)],
              creds |-> none, err |-> "nil"]
        ELSE IF action = "erase"
        THEN [native |-> [nat EXCEPT ![helper] = MapDelete(@, serverAddress)],
              creds |-> none, err |-> "nil"]
        ELSE IF serverAddress \notin DOMAIN nat[helper]
        THEN [native |-> nat, creds |-> none, err |-> errCredentialsNotFoundMessage]
        ELSE [native |-> nat, creds |-> nat[helper][serverAddress], err |-> "nil"]

\* client.Store: the result of exe.Execute is dropped and nil is returned
Store(nat, helper, serverAddress, cred, hx) ==
    LET x == Execute(nat, helper, "store", serverAddress, dockerCredOf(cred), hx)
    IN  [native |-> x.native, err |-> "nil"]

\* client.Erase: the result of exe.Execute is dropped and nil is returned
Erase(nat, helper, serverAddress, hx) ==
    LET x == Execute(nat, helper, "erase", serverAddress, dockerCredOf(EmptyCredential), hx)
    IN  [native |-> x.native, err |-> "nil"]

\* client.Get followed by nativeStore.Get: the error of Execute is no
\* errCredentialsNotFound value, so every error is returned
Get(nat, helper, serverAddress, hx) ==
    LET x == Execute(nat, helper, "get", serverAddress, dockerCredOf(EmptyCredential), hx)
    IN  IF x.err # "nil" THEN [cred |-> EmptyCredential, err |-> x.err]
        ELSE [cred |-> credOfDocker(x.creds), err |-> "nil"]

ExecCreds == {Cred(Str_u, Str_p, <<>>, <<>>), Cred(<<>>, <<>>, Str_r, <<>>)}

ExecInit ==
    /\ Loaded(NoFile)
    /\ constructed = "nativeStore"
    /\ sf = NoChain
    /\ native \in {[h \in HelperNames |-> EmptyMap],
                   [h \in HelperNames |->
                       IF h = nsHelper
                       THEN [s \in {"s2"} |-> [Username |-> Str_a, Secret |-> Str_p]]
                       ELSE EmptyMap]}
    /\ DisablePut = FALSE
    /\ AllowPlaintextPut = FALSE
    /\ detectedCredsStore = ""
    /\ platformDefault = ""
    /\ Quiet

exe_Get(serverAddress) ==
    \E hx \in HelperOutcomes :
        LET r == Get(native, nsHelper, serverAddress, hx)
        IN  /\ FbReturned("Get", serverAddress, r.cred, r.err, Consulted(nsHelper, hx))
            /\ UNCHANGED <<FbVars, native, touched>>

exe_Put(serverAddress, cred) ==
    \E hx \in HelperOutcomes :
        LET r == Store(native, nsHelper, serverAddress, cred, hx)
        IN  /\ native' = r.native
            /\ FbReturned("Put", serverAddress, cred, r.err, Consulted(nsHelper, hx))
            /\ touched' = touched \cup {serverAddress}
            /\ UNCHANGED FbVars

exe_Delete(serverAddress) ==
    \E hx \in HelperOutcomes :
        LET r == Erase(native, nsHelper, serverAddress, hx)
        IN  /\ native' = r.native
            /\ FbReturned("Delete", serverAddress, EmptyCredential, r.err,
                          Consulted(nsHelper, hx))
            /\ touched' = touched \cup {serverAddress}
            /\ UNCHANGED FbVars

ExecNext ==
    \/ \E s \in Servers : exe_Get(s)
    \/ \E s \in Servers, c \in ExecCreds : exe_Put(s, c)
    \/ \E s \in Servers : exe_Delete(s)

ExecSpec == ExecInit /\ [][ExecNext]_vars

\* C25 (as stated in the specification): Put and Delete of the helper-backed store
\* return a non-nil error whenever the execution of the helper for the store or erase
\* action fails and nil only when it succeeded; the helper is executed once, a failed
\* execution is not retried.
C25_HelperFailureReturned ==
    [][(Returns("Put") \/ Returns("Delete")) =>
        /\ Len(ret'.consulted) = 1
        /\ ret'.err = "nil" <=> Execution = "ok"]_vars

--------------------------------------------------------------------------
(* The token sentinel of the nativeStore, under NativeSpec *)

\* the username "<token>"
TokenName == <<60, 116, 111, 107, 101, 110, 62>>

\* what Put is to send to the helper for cred
SentFor(cred) ==
    IF cred.RefreshToken # <<>>
    THEN [Username |-> TokenName, Secret |-> cred.RefreshToken]
    ELSE [Username |-> cred.Username, Secret |-> cred.Password]

\* Put sends, and Get reads, the helper's credentials with the sentinel translated
Translated ==
    /\ (Returns("Put") /\ ret'.err = "nil") =>
          /\ ret'.server \in DOMAIN native'[nsHelper]
          /\ native'[nsHelper][ret'.server] = SentFor(ret'.cred)
    /\ (Returns("Get") /\ Execution = "ok" /\ ret'.server \in DOMAIN native[nsHelper]) =>
          LET d == native[nsHelper][ret'.server]
          IN  /\ ret'.err = "nil"
              /\ ret'.cred = IF d.Username = TokenName
                             THEN Cred(<<>>, <<>>, d.Secret, <<>>)
                             ELSE Cred(d.Username, d.Secret, <<>>, <<>>)

\* this step is a Get that the helper answered, for the server of the successful Put
\* that returned just before
GetAfterPut ==
    /\ ret.op = "Put" /\ ret.err = "nil"
    /\ Returns("Get") /\ ret'.server = ret.server /\ Execution = "ok"

BasicAuthOnly(cred) == cred.RefreshToken = <<>> /\ cred.AccessToken = <<>>

RefreshTokenOnly(cred) ==
    /\ cred.Username = <<>> /\ cred.Password = <<>> /\ cred.AccessToken = <<>>
    /\ cred.RefreshToken # <<>>

\* C26 as stated: Put with a non-empty refresh token sends the helper the username
\* "<token>" and the refresh token as secret, otherwise username and password; Get maps
\* an answer with username "<token>" to a credential with that refresh token and no
\* username or password, any other answer to username and password. Hence Put followed
\* by Get returns the credential put, if it is basic-auth only or refresh-token only.
C26_Original ==
    [][/\ Translated
       /\ (GetAfterPut /\ (BasicAuthOnly(ret.cred) \/ RefreshTokenOnly(ret.cred)))
             => ret'.cred = ret.cred]_vars

\* C26 amended: the translation as stated; Put followed by Get returns the credential
\* put if it is refresh-token only, or basic-auth only with a username other than
\* "<token>". A basic-auth credential whose username is "<token>" comes back as a
\* refresh token that is its password.
C26_TokenSentinel ==
    [][/\ Translated
       /\ (GetAfterPut /\ RefreshTokenOnly(ret.cred)) => ret'.cred = ret.cred
       /\ (GetAfterPut /\ BasicAuthOnly(ret.cred)) =>
             IF ret.cred.Username # TokenName
             THEN ret'.cred = ret.cred
             ELSE ret'.cred = Cred(<<>>, <<>>, ret.cred.Password, <<>>)]_vars

\* a refresh token was put, the helper holds it under the username "<token>", and Get
\* returned it
C26_Witness ==
    /\ ret.op = "Get" /\ ret.server = "s1" /\ ret.err = "nil" /\ nops = 2
    /\ ret.cred = Cred(<<>>, <<>>, Str_r, <<>>)
    /\ "s1" \in DOMAIN native[nsHelper]
    /\ native[nsHelper]["s1"] = [Username |-> TokenName, Secret |-> Str_r]

--------------------------------------------------------------------------
(* LoginSpec: Login, Logout and the Credential callback over a FileStore *)

\* the server address under which the credential of a registry is kept
mapHostname(hostname) ==
    IF hostname = "docker.io" THEN "https://index.docker.io/v1/" ELSE hostname

\* auth.StaticCredential: cred for the registry, the empty credential for any other host
StaticCredential(reg, cred) == [registry |-> reg, cred |-> cred]

\* the credentials the test registry accepts
Accepted == {Cred(Str_u, Str_p, <<>>, <<>>)}

\* the contexts of TestLogin: remote.Ping fails under the nil context
LoginContexts == {"Background", "nil"}

\* Registry.Ping through the client of reg: the client presents the credential its
\* Credential function has for the registry
Ping(reg, ctx) ==
    LET presented == IF reg.Client.Credential.registry = reg.Reference
                     THEN reg.Client.Credential.cred ELSE EmptyCredential
    IN  IF ctx = "nil" THEN "PingError"
        ELSE IF presented \in Accepted THEN "nil"
        ELSE "Unauthorized"

\* one call Login made on a collaborator
Made(c, arg, out) == [call |-> c, arg |-> arg, out |-> out]

\* Login that stores the credential before it pings the registry
Login_PutBeforePing(cfg, disablePut, reg, cred, ctx, io) ==
    LET authClient == [(IF reg.Client.type = "nil"
                        THEN [DefaultClient EXCEPT !.Cache = "nil"] ELSE reg.Client)
                         EXCEPT !.Credential = StaticCredential(reg.Reference, cred)]
        regClone == [reg EXCEPT !.Client = authClient]
        hostname == mapHostname(regClone.Reference)
        put == FileStorePut(cfg, disablePut, hostname, cred, io)
        ping == Ping(regClone, ctx)
    IN  IF reg.Client.type \notin {"nil", "*auth.Client"}
        THEN [cfg |-> cfg, err |-> "client type not supported", reg |-> reg,
              made |-> <<>>]
        ELSE IF put.err # "nil"
        THEN [cfg |-> put.cfg, err |-> "unable to store the credential", reg |-> reg,
              made |-> <<Made("Put", hostname, put.err)>>]
        ELSE [cfg |-> put.cfg,
              err |-> IF ping # "nil" THEN "unable to login to the registry" ELSE "nil",
              reg |-> reg,
              made |-> <<Made("Put", hostname, put.err),
                         Made("Ping", regClone.Reference, ping)>>]

\* Login on the caller's object reg: the store afterwards, the error, the caller's
\* object afterwards, and the calls made on the registry and on the store
Login(cfg, disablePut, reg, cred, ctx, io) ==
    LET authClient == [(IF reg.Client.type = "nil"
                        THEN [DefaultClient EXCEPT !.Cache = "nil"] ELSE reg.Client)
                         EXCEPT !.Credential = StaticCredential(reg.Reference, cred)]
        regClone == [reg EXCEPT !.Client = authClient]
        ping == Ping(regClone, ctx)
        hostname == mapHostname(regClone.Reference)
        put == FileStorePut(cfg, disablePut, hostname, cred, io)
    IN  IF reg.Client.type \notin {"nil", "*auth.Client"}
        THEN [cfg |-> cfg, err |-> "client type not supported", reg |-> reg,
              made |-> <<>>]
        ELSE IF ping # "nil"
        THEN [cfg |-> cfg, err |-> "unable to login to the registry", reg |-> reg,
              made |-> <<Made("Ping", regClone.Reference, ping)>>]
        ELSE [cfg |-> put.cfg,
              err |-> IF put.err # "nil" THEN "unable to store the credential" ELSE "nil",
              reg |-> reg,
              made |-> <<Made("Ping", regClone.Reference, ping),
                         Made("Put", hostname, put.err)>>]

\* Logout
Logout(cfg, registryName, io) ==
    LET del == FileStoreDelete(cfg, mapHostname(registryName), io)
    IN  [cfg |-> del.cfg, err |-> IF del.err # "nil" THEN "unable to logout" ELSE "nil"]

\* the function returned by Credential(store), called for a host
CredentialFunc(cache, host) ==
    IF host = "" THEN [cred |-> EmptyCredential, err |-> "nil"]
    ELSE fsGet(cache, host)

\* the credentials the callers log in with: the accepted one and one with another password
LoginCreds == {Cred(Str_u, Str_p, <<>>, <<>>), Cred(Str_u, Str_a, <<>>, <<>>)}

\* the hosts the auth client asks a credential for
LookupHosts == RegistryNames \cup {"", "https://index.docker.io/v1/"}

LoginSetup == <<DisablePut, AllowPlaintextPut, detectedCredsStore, platformDefault,
                loaded, sf, constructed, instances>>

LoginInit ==
    /\ \E f \in {NoFile, FileOf(DocUnknown)} : Loaded(f)
    /\ DisablePut \in BOOLEAN
    /\ AllowPlaintextPut = TRUE
    /\ detectedCredsStore = ""
    /\ platformDefault = ""
    /\ sf = NoChain
    /\ constructed = "FileStore"
    /\ native = EmptyMap
    /\ Quiet

LoginReturned(op, name, cred, err, made, ctx) ==
    /\ nops < MaxOps
    /\ nops' = nops + 1
    /\ ret' = [op |-> op, server |-> name, cred |-> cred, err |-> err,
               backend |-> "file", consulted |-> made, ctx |-> ctx]

lg_Login(ctx, name, cred) ==
    \E io \in SaveEnds :
        LET r == Login(CurrentConfig, DisablePut, registry[name], cred, ctx, io)
        IN  /\ SetConfig(r.cfg)
            /\ registry' = [registry EXCEPT ![name] = r.reg]
            /\ touched' = touched \cup {name}
            /\ LoginReturned("Login", name, cred, r.err, r.made, ctx)
            /\ UNCHANGED <<LoginSetup, CallerVars, native, setCredsStoreOnce, setCalls>>

lg_Logout(name) ==
    \E io \in SaveEnds :
        LET r == Logout(CurrentConfig, name, io)
        IN  /\ SetConfig(r.cfg)
            /\ touched' = touched \cup {name}
            /\ LoginReturned("Logout", name, EmptyCredential, r.err, <<>>, "Background")
            /\ UNCHANGED <<SetupVars, CallerVars, native, setCredsStoreOnce, setCalls>>

lg_Credential(host) ==
    LET r == CredentialFunc(authsCache, host)
    IN  /\ LoginReturned("Credential", host, r.cred, r.err, <<>>, "Background")
        /\ UNCHANGED <<ConfigVars, SetupVars, CallerVars, touched, native,
                       setCredsStoreOnce, setCalls>>

LoginNext ==
    \/ \E ctx \in LoginContexts, n \in RegistryNames, c \in LoginCreds : lg_Login(ctx, n, c)
    \/ \E n \in RegistryNames : lg_Logout(n)
    \/ \E h \in LookupHosts : lg_Credential(h)

LoginSpec == LoginInit /\ [][LoginNext]_vars

\* C27: the hostname mapping is applied identically by Login, by Logout and by the
\* Credential callback: for every registry name, docker.io included, the credential
\* that a successful Login stored is the one the callback returns for that registry,
\* and a successful Logout leaves no credential for it.
C27_SameMapping ==
    /\ (ret.op = "Login" /\ ret.err = "nil") =>
           CredentialFunc(authsCache, ret.server) = [cred |-> ret.cred, err |-> "nil"]
    /\ (ret.op = "Logout" /\ ret.err = "nil") =>
           /\ mapHostname(ret.server) \notin DOMAIN authsCache
           /\ CredentialFunc(authsCache, ret.server).cred = EmptyCredential

\* the step is a Login on a registry whose client Login supports
LoginOn(name) ==
    /\ nops' # nops /\ ret'.op = "Login" /\ ret'.server = name
    /\ registry[name].Client.type \in {"nil", "*auth.Client"}

\* the Ping of a Login with the credential and context of ret' succeeds
PingSucceeds == ret'.ctx = "Background" /\ ret'.cred \in Accepted

\* C28: Login calls the store's Put only after the Ping with the given credential has
\* succeeded. If Ping fails, Login returns an error and the store is unchanged; if Ping
\* succeeds, the credential is put under the mapped hostname and the error of Put, if
\* any, is returned; in every case the caller's registry object is left as it was.
C28_PingBeforePut ==
    [][\A name \in RegistryNames :
        /\ (nops' # nops /\ ret'.op = "Login") => registry' = registry
        /\ (LoginOn(name) /\ ~PingSucceeds) =>
              /\ ret'.err = "unable to login to the registry"
              /\ Len(ret'.consulted) = 1 /\ ret'.consulted[1].call = "Ping"
              /\ UNCHANGED ConfigVars
        /\ (LoginOn(name) /\ PingSucceeds) =>
              /\ Len(ret'.consulted) = 2
              /\ ret'.consulted[1] = Made("Ping", name, "nil")
              /\ ret'.consulted[2].call = "Put"
              /\ ret'.consulted[2].arg = mapHostname(name)
              /\ \E io \in SaveEnds :
                    LET put == FileStorePut(CurrentConfig, DisablePut, mapHostname(name),
                                            ret'.cred, io)
                    IN  /\ ret'.consulted[2].out = put.err
                        /\ (ret'.err = "nil") <=> (put.err = "nil")
                        /\ authsCache' = put.cfg.authsCache
                        /\ file' = put.cfg.file
                        /\ writes' = put.cfg.writes
              /\ ret'.err = "nil" =>
                    /\ fsGet(authsCache', mapHostname(name)) =
                           [cred |-> ret'.cred, err |-> "nil"]
                    /\ file'.doc[configFieldAuths] = authsCache']_vars

\* a Login on docker.io returned nil with the credential in the file under the mapped
\* key, after a Login on the caller's own client had failed at the Ping and a Login had
\* failed at the Put
C28_Witness ==
    /\ ret.op = "Login" /\ ret.err = "nil" /\ ret.server = "docker.io"
    /\ "https://index.docker.io/v1/" \in DOMAIN file.doc[configFieldAuths]
    /\ "docker.io" \notin DOMAIN authsCache
    /\ registry = Registries
    /\ touched = {"docker.io", "localhost:2333"}
    /\ saveFailed /\ "localhost:2333" \notin DOMAIN file.doc[configFieldAuths]
    /\ nops = 3

--------------------------------------------------------------------------
(* CodecSpec: encodeAuth and decodeAuth applied to drawn inputs *)

Str_username == <<117, 115, 101, 114, 110, 97, 109, 101>>
Str_password == <<112, 97, 115, 115, 119, 111, 114, 100>>

\* the usernames and passwords given to encodeAuth: the ones of Test_encodeAuth, and
\* short ones with and without ':'
CodecStrings ==
    { <<>>, Str_u, Str_p, <<Colon>>, <<117, Colon>>, <<Colon, 112>>, <<112, Colon, 112>>,
      Str_username, Str_password }

\* the strings given to decodeAuth: the ones of Test_decodeAuth, ":" encoded, and text
\* that is not base64 (too short, a character outside the alphabet, misplaced padding)
CodecAuthStrings ==
    { <<>>,
      <<100, 88, 78, 108, 99, 109, 53, 104, 98, 87, 85, 54, 99, 71, 70, 122, 99, 51, 100,
        118, 99, 109, 81, 61>>,                                   \* "dXNlcm5hbWU6cGFzc3dvcmQ="
      <<100, 88, 78, 108, 99, 109, 53, 104, 98, 87, 85, 54>>,     \* "dXNlcm5hbWU6"
      <<79, 110, 66, 104, 99, 51, 78, 51, 98, 51, 74, 107>>,      \* "OnBhc3N3b3Jk"
      <<100, 50, 104, 104, 100, 71, 86, 50, 90, 88, 73, 61>>,     \* "d2hhdGV2ZXI="
      <<119, 104, 97, 116, 101, 118, 101, 114>>,                  \* "whatever"
      <<79, 103, 61, 61>>,                                        \* "Og=="
      <<100, 84, 112>>,                                           \* "dTp"
      <<100, 84, 33, 119>>,                                       \* "dT!w"
      <<61, 84, 112, 119>> }                                      \* "=Tpw"

\* the inputs are in ret: the username and password in cred, the auth string in consulted
CodecInit ==
    /\ Loaded(NoFile)
    /\ DisablePut = FALSE
    /\ AllowPlaintextPut = TRUE
    /\ detectedCredsStore = ""
    /\ platformDefault = ""
    /\ sf = NoChain
    /\ constructed = "nil"
    /\ native = EmptyMap
    /\ tmp = [p \in Procs |-> NoFile]
    /\ registry = Registries
    /\ instances = NoInstances
    /\ leftover = 0
    /\ rwLock = NoLock
    /\ pc = [p \in Procs |-> "idle"]
    /\ call = [p \in Procs |-> NoCall]
    /\ setCredsStoreOnce = NewOnce
    /\ writes = 0
    /\ touched = {}
    /\ setCalls = 0
    /\ saveFailed = FALSE
    /\ nops = 0
    /\ \E u \in CodecStrings, p \in CodecStrings, a \in CodecAuthStrings :
          ret = [NoRet EXCEPT !.cred = Cred(u, p, <<>>, <<>>), !.consulted = <<a>>]

CodecUnchanged ==
    UNCHANGED <<ConfigVars, SetupVars, CallerVars, touched, native, setCredsStoreOnce,
                setCalls>>

\* encodeAuth of the username and password in ret; its result is the next auth string
cd_encodeAuth ==
    /\ nops < MaxOps
    /\ nops' = nops + 1
    /\ ret' = [ret EXCEPT !.op = "encodeAuth", !.err = "nil",
                          !.consulted = <<encodeAuth(ret.cred.Username, ret.cred.Password)>>]
    /\ CodecUnchanged

\* decodeAuth of the auth string in ret; its results are the next username and password
cd_decodeAuth ==
    LET r == decodeAuth(ret.consulted[1])
    IN  /\ nops < MaxOps
        /\ nops' = nops + 1
        /\ ret' = [ret EXCEPT !.op = "decodeAuth", !.err = r.err,
                              !.cred = Cred(r.username, r.password, <<>>, <<>>)]
        /\ CodecUnchanged

CodecNext == cd_encodeAuth \/ cd_decodeAuth

CodecSpec == CodecInit /\ [][CodecNext]_vars

\* s holds a ':'
HasColon(s) == \E i \in 1..Len(s) : s[i] = Colon

\* C29: encodeAuth returns the empty string exactly when username and password are both
\* empty and otherwise the base64 of username ":" password; decodeAuth of the empty
\* string returns two empty strings and no error, fails when its input is not valid
\* base64 or the decoded text holds no ':', and otherwise splits at the first ':';
\* so a decodeAuth of what encodeAuth returned for a username without ':' and any
\* password, not both empty, returns that username and that password.
C29_AuthCodec ==
    [][/\ Returns("encodeAuth") =>
             LET u == ret.cred.Username
                 p == ret.cred.Password
                 out == ret'.consulted[1]
             IN  /\ (out = <<>>) <=> (u = <<>> /\ p = <<>>)
                 /\ out # <<>> => DecodeString(out) = [ok |-> TRUE,
                                                       bytes |-> u \o <<Colon>> \o p]
       /\ Returns("decodeAuth") =>
             LET a == ret.consulted[1]
                 d == DecodeString(a)
                 u == ret'.cred.Username
                 p == ret'.cred.Password
             IN  /\ a = <<>> => (u = <<>> /\ p = <<>> /\ ret'.err = "nil")
                 /\ (a # <<>> /\ (~d.ok \/ ~HasColon(d.bytes))) =>
                        (ret'.err # "nil" /\ u = <<>> /\ p = <<>>)
                 /\ (a # <<>> /\ d.ok /\ HasColon(d.bytes)) =>
                        /\ ret'.err = "nil"
                        /\ ~HasColon(u)
                        /\ u \o <<Colon>> \o p = d.bytes
       /\ (Returns("decodeAuth") /\ ret.op = "encodeAuth"
             /\ ~HasColon(ret.cred.Username) /\ ret.cred # EmptyCredential) =>
             (ret'.cred = ret.cred /\ ret'.err = "nil")]_vars

\* decodeAuth returned a password holding ':' from what encodeAuth had returned for it
C29_Witness ==
    /\ ret.op = "decodeAuth" /\ ret.err = "nil" /\ nops = 2
    /\ ret.cred.Username = Str_p /\ ret.cred.Password = <<Colon, 112>>
    /\ ret.consulted = <<EncodeToString(<<112, Colon, Colon, 112>>)>>

--------------------------------------------------------------------------
(* ConfigSpec: one caller of a Config; every call is one step *)

CfgFiles == {NoFile, FileOf(DocUnknown), FileOf(DocHelpers), FileOf(DocNoAuth)}

CfgCreds == {Cred(Str_u, Str_p, <<>>, <<>>), Cred(<<>>, <<>>, Str_r, <<>>), EmptyCredential}

\* the values given to PutCredentialsStore
CfgCredsStores == {"", "store1", "pass"}

CfgInit ==
    /\ \E f \in CfgFiles : Loaded(f)
    /\ DisablePut = FALSE
    /\ AllowPlaintextPut = TRUE
    /\ detectedCredsStore = ""
    /\ platformDefault = ""
    /\ sf = NoChain
    /\ constructed = "Config"
    /\ native = EmptyMap
    /\ Quiet

CfgUnchanged == UNCHANGED <<SetupVars, CallerVars, native, setCredsStoreOnce, setCalls>>

cfg_PutAuthConfig(serverAddress, cred) ==
    \E io \in SaveEnds :
        LET cache == PutAuthConfig(authsCache, serverAddress, NewAuthConfig(cred))
        IN  /\ SetConfig(saveFile([CurrentConfig EXCEPT !.authsCache = cache], io))
            /\ touched' = touched \cup {serverAddress}
            /\ Returned("PutAuthConfig", serverAddress, cred, SaveErr(io), "")
            /\ CfgUnchanged

cfg_DeleteAuthConfig(serverAddress) ==
    \E io \in SaveEnds :
        LET r == DeleteAuthConfig(authsCache, serverAddress)
        IN  /\ IF r.save
               THEN SetConfig(saveFile([CurrentConfig EXCEPT !.authsCache = r.cache], io))
               ELSE UNCHANGED ConfigVars
            /\ touched' = touched \cup {serverAddress}
            /\ Returned("DeleteAuthConfig", serverAddress, EmptyCredential,
                        IF r.save THEN SaveErr(io) ELSE "nil", "")
            /\ CfgUnchanged

cfg_PutCredentialsStore(credsStore) ==
    \E io \in SaveEnds :
        /\ SetConfig(PutCredentialsStore(CurrentConfig, credsStore, io))
        /\ Returned("PutCredentialsStore", "", EmptyCredential, SaveErr(io), credsStore)
        /\ UNCHANGED touched
        /\ CfgUnchanged

CfgNext ==
    \/ \E s \in Servers, c \in CfgCreds : cfg_PutAuthConfig(s, c)
    \/ \E s \in Servers : cfg_DeleteAuthConfig(s)
    \/ \E cs \in CfgCredsStores : cfg_PutCredentialsStore(cs)

CfgSpec == CfgInit /\ [][CfgNext]_vars

\* the step is a mutating call on the Config that returns nil: a PutAuthConfig, a
\* PutCredentialsStore, or a DeleteAuthConfig of a server that has an entry
Mutated ==
    /\ nops' # nops /\ ret'.err = "nil"
    /\ \/ ret'.op \in {"PutAuthConfig", "PutCredentialsStore"}
       \/ ret'.op = "DeleteAuthConfig" /\ ret'.server \in DOMAIN authsCache

\* C30: whenever a mutating operation on a Config returns nil, the file at the config
\* path has just been rewritten as a whole, and its auths, credsStore and credHelpers
\* decode to exactly the caches of the Config, whatever calls, successful or failed,
\* came before.
C30_FileIsCache ==
    [][Mutated =>
        /\ writes' = writes + 1
        /\ file'.exists /\ ~file'.dir /\ file'.complete
        /\ file'.doc = content'
        /\ LET c == LoadConfigFile(file')
           IN  /\ c.err = "nil"
               /\ c.authsCache = authsCache'
               /\ c.credentialsStoreCache = credentialsStoreCache'
               /\ c.credentialHelpersCache = credentialHelpersCache']_vars

\* a PutCredentialsStore returned nil on a Config whose file did not exist, after a
\* PutAuthConfig whose save had failed: the file now holds the entry and the credsStore
C30_Witness ==
    /\ ret.op = "PutCredentialsStore" /\ ret.err = "nil" /\ ret.backend = "pass"
    /\ ~loaded.exists /\ saveFailed /\ writes = 1 /\ nops = 2
    /\ file.doc = ("auths" :> authsCache) @@ ("credsStore" :> "pass")
    /\ "s1" \in DOMAIN authsCache

--------------------------------------------------------------------------
(* A failed save of the FileStore, under Spec *)

\* the step is a Put or Delete whose saveFile returned an error
SaveFailedIn(op) == Returns(op) /\ ret'.err = "IOError"

--------------------------------------------------------------------------
(* A failed write of credsStore, under ConcSpec *)

\* this step is the return of a Put of caller p
PutReturns(p) == pc[p] # "idle" /\ pc'[p] = "idle" /\ call[p].op = "Put"

\* the helper's Put of p's call succeeds in this step
StoredByHelper(p) == pc[p] = "native" /\ pc'[p] = "once_check"

\* p's call is past the Put of the helper, which succeeded
AfterHelperPut(p) == pc[p] \in {"once_check", "once_lock", "once_done"}

\* the helper holds the credential of p's Put
HeldByHelper(nat, p) ==
    /\ call[p].server \in DOMAIN nat[call[p].backend]
    /\ nat[call[p].backend][call[p].server] = dockerCredOf(call[p].cred)

\* the write of credsStore was tried and failed
WriteFailed == setCredsStoreOnce.done /\ saveFailed

\* C32: with a detected helper, if the write of credsStore fails in the first Put that
\* succeeded at the backend, that Put returns an error although the helper took the
\* credential, which it held when its Put returned; the latch is consumed all the same, so no later Put writes credsStore
\* again: every Put that succeeds at the backend afterwards, also one that waited on
\* the latch while the write was failing, returns nil, and the file still has no
\* credsStore.
C32_FailedWriteNotRetried ==
    [][detectedCredsStore # "" =>
        /\ \A p \in Procs :
              /\ StoredByHelper(p) => HeldByHelper(native', p)
              /\ (PutReturns(p) /\ ret'.err = "ErrSetCredsStore") =>
                    /\ ~setCredsStoreOnce.done /\ setCredsStoreOnce'.done
                    /\ setCalls = 1 /\ writes' = 0 /\ file' = loaded
                    /\ AfterHelperPut(p)
              /\ (PutReturns(p) /\ WriteFailed) =>
                    /\ ret'.err \in {"nil", "HelperError"}
                    /\ ret'.err = "nil" => AfterHelperPut(p)
        /\ WriteFailed =>
              /\ setCredsStoreOnce'.done
              /\ setCalls' = 1 /\ writes' = 0
              /\ file' = loaded /\ FileCredsStore(file') = ""]_vars

\* the Put of p1 returned the error of the failed write, the Put of p2, which had gone
\* to the helper before the latch was consumed, returned nil; the helper holds both
\* credentials and the file has no credsStore
C32_Witness ==
    /\ pc = [p \in Procs |-> "idle"]
    /\ call["p1"].op = "Put" /\ call["p1"].err = "ErrSetCredsStore" /\ call["p1"].inOnce
    /\ call["p2"].op = "Put" /\ call["p2"].err = "nil" /\ ~call["p2"].inOnce
    /\ ret.server = "s2" /\ ret.err = "nil" /\ call["p1"].server = "s1"
    /\ detectedCredsStore = "pass" /\ setCredsStoreOnce.done /\ saveFailed
    /\ setCalls = 1 /\ writes = 0 /\ FileCredsStore(file) = ""
    /\ DOMAIN native["pass"] = {"s1", "s2"}
    /\ credentialsStoreCache = "pass"

--------------------------------------------------------------------------
(* Puts that fail at the backend, under DynSpec *)

\* this step is the return of a Put that failed at its backend
BackendFailedPut ==
    Returns("Put") /\ ret'.err \in {"HelperError", "IOError", "ErrPlaintextPutDisabled"}

\* a failed Put leaves the latch, credsStore and the file as they were
FailedPutKeepsLatch ==
    BackendFailedPut =>
        /\ setCredsStoreOnce' = setCredsStoreOnce
        /\ setCalls' = setCalls
        /\ credentialsStoreCache' = credentialsStoreCache
        /\ file' = file /\ writes' = writes

\* C33 as stated: a Put that fails at the backend does not consume the latch and writes
\* nothing to the config; after any number of failed Puts, the first Put that succeeds
\* at the backend persists the detected helper name into credsStore, in memory and in
\* the file.
C33_Original ==
    [][/\ FailedPutKeepsLatch
       /\ (detectedCredsStore # "" /\ FirstBackendPut) =>
             /\ credentialsStoreCache' = detectedCredsStore
             /\ FileCredsStore(file') = detectedCredsStore]_vars

\* C33 amended: a Put that fails at the backend does not consume the latch and writes
\* nothing to the config, so with a detected helper the latch is unused for as long as
\* no Put has succeeded at the backend; the first Put that does succeed there, after
\* any number of failed ones, runs the write of credsStore: the detected helper name is
\* in memory afterwards, and in the file if the write succeeded; if the write fails the
\* Put returns its error and the file is as before.
C33_FailedPutKeepsLatch ==
    [][/\ FailedPutKeepsLatch
       /\ detectedCredsStore # "" =>
             /\ setCredsStoreOnce.done <=> setCalls = 1
             /\ ~setCredsStoreOnce.done => credentialsStoreCache = ""
             /\ FirstBackendPut =>
                   /\ setCalls = 0 /\ setCalls' = 1 /\ setCredsStoreOnce'.done
                   /\ credentialsStoreCache' = detectedCredsStore
                   /\ ret'.err = "nil" =>
                         (FileCredsStore(file') = detectedCredsStore /\ writes' = 1)
                   /\ ret'.err # "nil" =>
                         (ret'.err = "ErrSetCredsStore" /\ file' = file)]_vars

\* the third Put on s1 succeeded at the helper and wrote credsStore; no other server
\* was named, and the helper holds nothing for another server
C33_Witness ==
    /\ ret.op = "Put" /\ ret.err = "nil" /\ ret.server = "s1" /\ nops = 3
    /\ touched = {"s1"} /\ detectedCredsStore = "pass"
    /\ DOMAIN native["pass"] = {"s1"}
    /\ setCalls = 1 /\ writes = 1 /\ FileCredsStore(file) = "pass"
    /\ ~saveFailed

--------------------------------------------------------------------------
(* The backend of a server address over the lifetime of a dynamicStore, under DynSpec *)

\* the store getStore resolved for s when NewStore returned
InitialStore(s) ==
    LET c == LoadConfigFile(loaded)
    IN  getStore(c.credentialHelpersCache, c.credentialsStoreCache,
                 DetectedAtLoad(loaded, platformDefault), s)

\* C34: for every server address s the backend selected for s is the same on every
\* call, whatever Gets, Puts and Deletes were made: it is the one selected when the
\* store was constructed, also after the one-time write of the detected helper name
\* into credsStore; the detected helper is the one found at construction and is not
\* looked for again.
C34_BackendIsStable ==
    [][/\ \A s \in Servers :
             /\ CurrentStore(s) = InitialStore(s)
             /\ CurrentStore(s)' = InitialStore(s)
       /\ nops' # nops => ret'.backend = BackendName(InitialStore(ret'.server))
       /\ detectedCredsStore' = detectedCredsStore
       /\ detectedCredsStore = DetectedAtLoad(loaded, platformDefault)]_vars

\* a Get went to the detected helper after the Put that wrote its name into credsStore;
\* the file now configures authentication, so a detection made now would find nothing
C34_Witness ==
    /\ ret.op = "Get" /\ ret.backend = "pass" /\ nops = 2
    /\ detectedCredsStore = "pass" /\ credentialsStoreCache = "pass"
    /\ FileCredsStore(file) = "pass" /\ ~loaded.exists
    /\ LoadConfigFile(loaded).credentialsStoreCache = ""
    /\ DetectedAtLoad(file, platformDefault) = ""


--------------------------------------------------------------------------
(* The file stores of one dynamicStore, under ConcSpec *)

\* caller p's call goes to a file store
OnFileStore(p) == call[p].op # "none" /\ call[p].backend = "file"

\* the entry of s in the cache changes in this step
EntryChanges(s) ==
    \/ (s \in DOMAIN authsCache) # (s \in DOMAIN authsCache')
    \/ s \in DOMAIN authsCache /\ s \in DOMAIN authsCache' /\ authsCache'[s] # authsCache[s]

\* caller p's Get on the file store returns in this step
FileGetReturns(p) == pc[p] = "read" /\ pc'[p] = "idle"

\* caller p's Put or Delete on the file store changes the cache in this step
FileWrites(p) == pc[p] = "lock" /\ pc'[p] # "lock" /\ ~call[p].inOnce

\* C35: every file store that a dynamicStore resolves, on any call and for any server
\* address, is built on the one config of the dynamicStore: the entry of a server
\* changes only by a Put or Delete for that server, a Put leaves the entry of its
\* credential there, every Get on a file store returns the entry the cache holds at
\* that moment, and at most one caller at a time is inside the locked part of a write,
\* holding the one lock.
C35_OneConfig ==
    [][/\ \A p \in Procs : OnFileStore(p)' => call'[p].config = dsConfig
       /\ \A s \in Servers :
            /\ CurrentStore(s).kind = "file" => CurrentStore(s).config = dsConfig
            /\ EntryChanges(s) =>
                 \E p \in Procs : FileWrites(p) /\ OnFileStore(p) /\ call[p].server = s
       /\ \A p \in Procs :
            /\ FileWrites(p) /\ call[p].op = "Put" =>
                 authsCache'[call[p].server] = EntryOf(call[p].cred)
            /\ FileGetReturns(p) =>
                 /\ ret'.cred = StoredIn(authsCache, call[p].server).cred
                 /\ ret'.err = StoredIn(authsCache, call[p].server).err
       /\ \A p, q \in Procs :
            pc'[p] \in LockedSteps /\ pc'[q] \in LockedSteps =>
                p = q /\ rwLock'.writer = p]_vars

\* one caller's Put on a file store returned nil, and the other caller's later Get of
\* the same server, on a file store over the same config, returned that credential
C35_Witness ==
    \E p, q \in Procs :
        /\ p # q /\ pc[p] = "idle" /\ pc[q] = "idle"
        /\ call[p].op = "Put" /\ call[p].err = "nil" /\ OnFileStore(p)
        /\ call[q].op = "Get" /\ call[q].err = "nil" /\ OnFileStore(q)
        /\ call[p].server = call[q].server
        /\ call[p].config = dsConfig /\ call[q].config = dsConfig
        /\ call[p].cred # EmptyCredential
        /\ ret.op = "Get" /\ ret.cred = call[p].cred

--------------------------------------------------------------------------
(* InstSpec: two Config instances of one path, each with a caller of its own *)

InstFiles == {NoFile, FileOf(DocNoAuth), FileOf(DocUnknown)}

InstInit ==
    /\ \E f \in InstFiles : Loaded(f)
    /\ DisablePut = FALSE
    /\ AllowPlaintextPut = TRUE
    /\ detectedCredsStore = ""
    /\ platformDefault = ""
    /\ sf = NoChain
    /\ constructed = "nil"
    /\ native = EmptyMap
    /\ tmp = [p \in Procs |-> NoFile]
    /\ registry = Registries
    /\ instances = NoInstances
    /\ leftover = 0
    /\ rwLock = NoLock
    /\ pc = [p \in Procs |-> "new"]
    /\ call = [p \in Procs |-> NoCall]
    /\ setCredsStoreOnce = NewOnce
    /\ writes = 0
    /\ touched = {}
    /\ setCalls = 0
    /\ saveFailed = FALSE
    /\ nops = 0
    /\ ret = NoRet

InstUnchanged ==
    UNCHANGED <<ConfigVars, DisablePut, AllowPlaintextPut, detectedCredsStore,
                platformDefault, loaded, sf, constructed, registry, tmp, leftover, rwLock,
                native, setCredsStoreOnce, setCalls, touched>>

\* the Config that LoadConfigFile returns for the file at the path
ConfigOf(f) == [k \in DOMAIN NewConfig |-> LoadConfigFile(f)[k]]

\* LoadConfigFile: the instance of p reads the file that is at the path now
inst_Load(p) ==
    /\ pc[p] = "new"
    /\ instances' = [instances EXCEPT ![p] = ConfigOf(file)]
    /\ Goto(p, "idle")
    /\ UNCHANGED <<call, nops, ret>>
    /\ InstUnchanged

\* the cache of the instance is changed and marshalled into its content: the first
\* half of saveFile, for a save that takes place
Marshalled(p, op, serverAddress, cred, cache, save) ==
    LET cfg == instances[p]
        doc == MarshalContent(cfg.content, cfg.credentialsStoreCache,
                              cfg.credentialHelpersCache, cache)
    IN  /\ nops < MaxCalls
        /\ nops' = nops + 1
        /\ instances' = [instances EXCEPT ![p].authsCache = cache,
                                          ![p].content = IF save THEN doc ELSE @]
        /\ call' = [call EXCEPT ![p] =
                       [NoCall EXCEPT !.op = op, !.server = serverAddress, !.cred = cred,
                                      !.backend = "file",
                                      !.doc = IF save THEN doc ELSE EmptyMap]]
        /\ Goto(p, IF save THEN "mkdir" ELSE "unlock")
        /\ ret' = ret

\* PutAuthConfig that reads the file again before it changes the cache
inst_PutAuthConfig_Reread(p, serverAddress, cred) ==
    /\ pc[p] = "idle"
    /\ Marshalled(p, "Put", serverAddress, cred,
                  PutAuthConfig(ConfigOf(file).authsCache, serverAddress,
                                NewAuthConfig(cred)),
                  TRUE)
    /\ InstUnchanged

\* PutAuthConfig on the instance of p, up to the marshalling
inst_PutAuthConfig(p, serverAddress, cred) ==
    /\ pc[p] = "idle"
    /\ Marshalled(p, "Put", serverAddress, cred,
                  PutAuthConfig(instances[p].authsCache, serverAddress,
                                NewAuthConfig(cred)),
                  TRUE)
    /\ InstUnchanged

\* DeleteAuthConfig on the instance of p, up to the marshalling
inst_DeleteAuthConfig(p, serverAddress) ==
    /\ pc[p] = "idle"
    /\ LET d == DeleteAuthConfig(instances[p].authsCache, serverAddress)
       IN  Marshalled(p, "Delete", serverAddress, EmptyCredential, d.cache, d.save)
    /\ InstUnchanged

\* the deferred Unlock of the instance's own lock, and the return
inst_Unlock(p) ==
    /\ pc[p] = "unlock"
    /\ Return(p, EmptyCredential, call[p].err)
    /\ UNCHANGED <<instances, nops>>
    /\ InstUnchanged

InstNext ==
    \E p \in Procs :
        \/ inst_Load(p)
        \/ \E s \in Servers, c \in ConcCreds : inst_PutAuthConfig(p, s, c)
        \/ \E s \in Servers \cup {"s0"} : inst_DeleteAuthConfig(p, s)
        \/ c_MkdirAll(p)
        \/ c_CreateTemp(p)
        \/ c_Copy(p)
        \/ c_Rename(p)
        \/ inst_Unlock(p)

InstSpec == InstInit /\ [][InstNext]_vars

--------------------------------------------------------------------------
(* Two instances of one path, under InstSpec *)

\* the rename of p's save takes place in this step
Renamed(p) == pc[p] = "rename" /\ pc'[p] = "unlock" /\ call'[p].err = "nil"

\* the instance of p is loaded in this step
Loads(p) == pc[p] = "new" /\ pc'[p] = "idle"

\* the caches a and b differ in the entry of s
EntryDiffers(a, b, s) ==
    \/ (s \in DOMAIN a) # (s \in DOMAIN b)
    \/ s \in DOMAIN a /\ s \in DOMAIN b /\ a[s] # b[s]

\* the auths of the file at the path
AuthsInFile(f) == LoadConfigFile(f).authsCache

\* C36: with two independent instances of one path, the file changes only when a
\* rename takes place, and then it is exactly the complete document of the instance
\* that renamed: its content, with exactly the entries of its cache, so an entry that
\* instance does not hold is absent from the file whatever the other instance wrote.
\* Once loaded, an instance never reads the file again: its cache changes only in
\* the entry its own call names.
C36_LastRenameWins ==
    [][/\ file' # file => \E p \in Procs : Renamed(p)
       /\ file'.complete /\ ~file'.dir
       /\ \A p \in Procs :
            /\ Renamed(p) =>
                 /\ file' = FileOf(instances[p].content)
                 /\ file'.doc = call[p].doc
                 /\ AuthsInFile(file') = instances[p].authsCache
                 /\ \A s \in Servers \cup {"s0"} :
                      s \notin DOMAIN instances[p].authsCache =>
                          s \notin DOMAIN AuthsInFile(file')
            /\ ~Loads(p) =>
                 \A s \in Servers \cup {"s0"} :
                     EntryDiffers(instances[p].authsCache, instances'[p].authsCache, s)
                         => pc[p] = "idle" /\ call'[p].server = s]_vars

\* both instances put an entry, for different servers, and both saves succeeded: the
\* file has the entry of one instance only, and the other instance still holds its own
C36_Witness ==
    \E p, q \in Procs :
        /\ p # q /\ pc[p] = "idle" /\ pc[q] = "idle" /\ writes = 2
        /\ call[p].op = "Put" /\ call[p].err = "nil"
        /\ call[q].op = "Put" /\ call[q].err = "nil"
        /\ call[p].server # call[q].server
        /\ file = FileOf(instances[q].content)
        /\ call[p].server \in DOMAIN instances[p].authsCache
        /\ call[p].server \notin DOMAIN AuthsInFile(file)
        /\ call[q].server \in DOMAIN AuthsInFile(file)

--------------------------------------------------------------------------
(* FfSpec: one caller of a fallback chain whose primary store is a file store *)

\* a file whose entry of s2 has a legacy field only
DocEmailOnly == [auths |-> [s \in {"s2"} |-> [email |-> <<101>>]]]

FfFiles == {NoFile, FileOf(DocEmptyEntry), FileOf(DocEmailOnly)}

FfInit ==
    /\ \E n \in 0..Len(FbFallbacks) :
          sf = NewStoreWithFallbacks("file", SubSeq(FbFallbacks, 1, n))
    /\ constructed = IF sf.wrapped THEN "storeWithFallbacks" ELSE "FileStore"
    /\ native \in [HelperNames -> {EmptyMap} \cup
                      {[s \in {"s1"} |-> dockerCredOf(FbHeld(h))] : h \in HelperNames}]
    /\ \A h \in HelperNames :
          /\ native[h] # EmptyMap => native[h]["s1"] = dockerCredOf(FbHeld(h))
          /\ ~InChain(sf, h) => native[h] = EmptyMap
    /\ \E f \in FfFiles : Loaded(f)
    /\ DisablePut = FALSE
    /\ AllowPlaintextPut = TRUE
    /\ detectedCredsStore = ""
    /\ platformDefault = ""
    /\ Quiet

\* how the calls of the fallbacks end
FfOutcomes == [1..(Len(sf.stores) - 1) -> HelperOutcomes]

\* the loop of Get taking a key of auths for a credential that was found
ffGet_KeyIsFound(cache, nat, chain, serverAddress, out) ==
    LET r == fsGet(cache, serverAddress)
        first == Consulted("file", "ok")
    IN  IF ~chain.wrapped \/ r.err # "nil" \/ serverAddress \in DOMAIN cache
        THEN [cred |-> r.cred, err |-> r.err, consulted |-> first]
        ELSE LET rest == sfGetFrom(nat, Tail(chain.stores), serverAddress, out, 1)
             IN  [rest EXCEPT !.consulted = first \o @]

\* Get on what NewStoreWithFallbacks returned for a file store: the file store itself,
\* or the loop of storeWithFallbacks.Get, which goes on to the fallbacks if the file
\* store returned EmptyCredential and no error
ffGet(cache, nat, chain, serverAddress, out) ==
    LET r == fsGet(cache, serverAddress)
        first == Consulted("file", "ok")
    IN  IF ~chain.wrapped \/ r.err # "nil" \/ r.cred # EmptyCredential
        THEN [cred |-> r.cred, err |-> r.err, consulted |-> first]
        ELSE LET rest == sfGetFrom(nat, Tail(chain.stores), serverAddress, out, 1)
             IN  [rest EXCEPT !.consulted = first \o @]

FfVars == <<SetupVars, CallerVars, native, setCredsStoreOnce, setCalls>>

ff_Get(serverAddress) ==
    \E out \in FfOutcomes :
        LET r == ffGet(authsCache, native, sf, serverAddress, out)
        IN  /\ FbReturned("Get", serverAddress, r.cred, r.err, r.consulted)
            /\ UNCHANGED <<ConfigVars, FfVars, touched>>

\* Put: sf.stores[0].Put, the Put of the file store
ff_Put(serverAddress, cred) ==
    \E io \in SaveEnds :
        LET r == FileStorePut(CurrentConfig, DisablePut, serverAddress, cred, io)
        IN  /\ SetConfig(r.cfg)
            /\ touched' = touched \cup {serverAddress}
            /\ FbReturned("Put", serverAddress, cred, r.err, Consulted("file", io))
            /\ UNCHANGED FfVars

\* Delete: sf.stores[0].Delete, the Delete of the file store
ff_Delete(serverAddress) ==
    \E io \in SaveEnds :
        LET r == FileStoreDelete(CurrentConfig, serverAddress, io)
        IN  /\ SetConfig(r.cfg)
            /\ touched' = touched \cup {serverAddress}
            /\ FbReturned("Delete", serverAddress, EmptyCredential, r.err,
                          Consulted("file", io))
            /\ UNCHANGED FfVars

FfNext ==
    \/ \E s \in Servers : ff_Get(s)
    \/ \E s \in Servers, c \in FbCreds : ff_Put(s, c)
    \/ \E s \in Servers : ff_Delete(s)

FfSpec == FfInit /\ [][FfNext]_vars

--------------------------------------------------------------------------
(* An entry that decodes to the empty credential, under FfSpec *)

\* auths has the key s, and its entry decodes to EmptyCredential
EmptyEntry(cache, s) ==
    s \in DOMAIN cache /\ fsGet(cache, s) = [cred |-> EmptyCredential, err |-> "nil"]

\* the fallbacks that hold a credential for s
FallbackFinders(s) == {i \in 2..Len(sf.stores) : StoreGets(i, s) # EmptyCredential}

\* C37: Put(s, EmptyCredential) creates the key s with an empty object. When the entry
\* of s decodes to the empty credential, Get(s) returns what it would return if the key
\* were absent: EmptyCredential and no error from a file store alone; in a chain the
\* loop goes on to the fallbacks and, unless one of them fails, returns the credential
\* of the first fallback that holds one for s. The key is in auths all the same and
\* IsAuthConfigured is true.
C37_EmptyEntryIsAbsence ==
    [][/\ Returns("Put") /\ ret'.cred = EmptyCredential /\ ret'.err = "nil" =>
            /\ ret'.server \in DOMAIN authsCache'
            /\ authsCache'[ret'.server] = EmptyMap
            /\ EmptyEntry(authsCache', ret'.server)
       /\ Returns("Get") /\ EmptyEntry(authsCache, ret'.server) =>
            LET s == ret'.server
            IN  /\ IsAuthConfigured(credentialsStoreCache, credentialHelpersCache,
                                    authsCache)
                /\ \E out \in FfOutcomes :
                     LET a == ffGet(MapDelete(authsCache, s), native, sf, s, out)
                     IN  /\ ret'.cred = a.cred /\ ret'.err = a.err
                         /\ ret'.consulted = a.consulted
                /\ ~sf.wrapped => ret'.cred = EmptyCredential /\ ret'.err = "nil"
                /\ sf.wrapped =>
                     /\ Len(ret'.consulted) >= 2
                     /\ ret'.err = "nil" =>
                          ret'.cred = IF FallbackFinders(s) = {} THEN EmptyCredential
                                      ELSE StoreGets(Least(FallbackFinders(s)), s)]_vars

\* no file was loaded, Put(s1, EmptyCredential) left the key s1 with an empty object,
\* and Get(s1) on the chain returned the credential of the first fallback
C37_Witness ==
    /\ loaded = NoFile /\ touched = {"s1"} /\ Len(sf.stores) = 3
    /\ "s1" \in DOMAIN authsCache /\ DOMAIN authsCache["s1"] = {}
    /\ IsAuthConfigured(credentialsStoreCache, credentialHelpersCache, authsCache)
    /\ ret.op = "Get" /\ ret.server = "s1" /\ ret.err = "nil"
    /\ ret.cred = StoreGets(2, "s1") /\ ret.cred # EmptyCredential
    /\ StoresCalled(ret.consulted) = <<"file", "store1">>

--------------------------------------------------------------------------
(* The credHelpers mapping, under DynSpec *)

\* the credHelpers mapping LoadConfigFile read
HelpersAtLoad == LoadConfigFile(loaded).credentialHelpersCache

\* C38: no Get, Put or Delete, and no write of credsStore, changes the credHelpers
\* mapping: the mapping in memory, and the mapping of the file at the path whatever
\* saves were made, is the mapping read at load time.
C38_HelpersUnchanged ==
    /\ credentialHelpersCache = HelpersAtLoad
    /\ LoadConfigFile(file).credentialHelpersCache = HelpersAtLoad
    /\ configFieldCredentialHelpers \in DOMAIN file.doc =>
           file.doc[configFieldCredentialHelpers] = HelpersAtLoad
    /\ \A s \in Servers :
           GetCredentialHelpers(credentialHelpersCache, s) =
               GetCredentialHelpers(HelpersAtLoad, s)

\* the loaded file names a helper for s1; a Put of s2 went to the file store and was
\* saved, and a later Get of s2 returned the credential: the saved file has the mapping
C38_Witness ==
    /\ loaded = FileOf(DocHelperOnly) /\ file # loaded /\ writes >= 1
    /\ file.doc[configFieldCredentialHelpers] = ("s1" :> "helper1")
    /\ "s2" \in DOMAIN file.doc[configFieldAuths]
    /\ ret.op = "Get" /\ ret.server = "s2" /\ ret.backend = "file"
    /\ ret.cred # EmptyCredential

--------------------------------------------------------------------------
(* LockSpec: two callers of the methods of one config of src/config.go *)

\* the receiver of a method of config: getAuthConfig and putAuthConfig are declared
\* on config, so each call works on a copy of the struct, its rwLock included;
\* deleteAuthConfig is declared on *config
Receiver(op) == IF op \in {"Get", "Put"} THEN "copy" ELSE "pointer"

\* saveFile of config, first half: the auths are marshalled into Content
MarshalAuths(c, cache) == MapPut(c, configFieldAuths, cache)

LockFiles == {NoFile, FileOf(DocUnknown)}

LockInit ==
    /\ \E f \in LockFiles : Loaded(f)
    /\ DisablePut = FALSE
    /\ AllowPlaintextPut = TRUE
    /\ detectedCredsStore = ""
    /\ platformDefault = ""
    /\ sf = NoChain
    /\ constructed = "config"
    /\ native = EmptyMap
    /\ Quiet

LockUnchanged ==
    UNCHANGED <<SetupVars, tmp, leftover, native, setCredsStoreOnce, setCalls>>

\* a method is called: a value receiver is copied, maps by reference and the lock by
\* value, in the state the lock is in at this moment
config_Call(p, op, serverAddress, cred) ==
    /\ pc[p] = "idle" /\ nops < MaxCalls
    /\ nops' = nops + 1
    /\ touched' = IF op = "Get" THEN touched ELSE touched \cup {serverAddress}
    /\ call' = [call EXCEPT ![p] =
                   [NoCall EXCEPT !.op = op, !.server = serverAddress, !.cred = cred,
                                  !.backend = "file", !.config = Receiver(op),
                                  !.lock = IF Receiver(op) = "copy" THEN rwLock
                                           ELSE NoLock]]
    /\ Goto(p, "rwlock")
    /\ ret' = ret
    /\ UNCHANGED <<ConfigVars, rwLock>>
    /\ LockUnchanged

\* cfg.rwLock.RLock() or cfg.rwLock.Lock(), on the lock of the receiver
config_Lock(p) ==
    /\ pc[p] = "rwlock"
    /\ LET c == call[p]
       IN  IF c.config = "copy"
           THEN /\ IF c.op = "Get" THEN CanRLock(c.lock) ELSE CanLock(c.lock)
                /\ call' = [call EXCEPT ![p].lock =
                               IF c.op = "Get" THEN [@ EXCEPT !.readers = @ \cup {p}]
                               ELSE [@ EXCEPT !.writer = p]]
                /\ rwLock' = rwLock
           ELSE /\ CanLock(rwLock)
                /\ rwLock' = [rwLock EXCEPT !.writer = p]
                /\ call' = call
    /\ Goto(p, IF call[p].op = "Get" THEN "read" ELSE "mutate")
    /\ UNCHANGED <<ConfigVars, touched, nops, ret>>
    /\ LockUnchanged

\* getAuthConfig reads AuthsCache and returns
config_Read(p) ==
    /\ pc[p] = "read"
    /\ LET r == fsGet(authsCache, call[p].server)
       IN  Return(p, r.cred, r.err)
    /\ UNCHANGED <<ConfigVars, rwLock, touched, nops>>
    /\ LockUnchanged

\* putAuthConfig or deleteAuthConfig changes AuthsCache, and saveFile marshals it
config_Mutate(p) ==
    /\ pc[p] = "mutate"
    /\ LET c == call[p]
           d == DeleteAuthConfig(authsCache, c.server)
           cache == IF c.op = "Put"
                    THEN PutAuthConfig(authsCache, c.server, NewAuthConfig(c.cred))
                    ELSE d.cache
           save == c.op = "Put" \/ d.save
           doc == MarshalAuths(content, cache)
       IN  /\ authsCache' = cache
           /\ content' = IF save THEN doc ELSE content
           /\ call' = [call EXCEPT ![p].doc = IF save THEN doc ELSE EmptyMap]
           /\ Goto(p, IF save THEN "mkdir" ELSE "unlock")
    /\ UNCHANGED <<credentialsStoreCache, credentialHelpersCache, file, writes, saveFailed,
                   rwLock, touched, nops, ret>>
    /\ LockUnchanged

\* the deferred Unlock of the lock of the receiver, and the return
config_Unlock(p) ==
    /\ pc[p] = "unlock"
    /\ rwLock' = IF call[p].config = "pointer" THEN [rwLock EXCEPT !.writer = "none"]
                 ELSE rwLock
    /\ Return(p, EmptyCredential, call[p].err)
    /\ UNCHANGED <<ConfigVars, touched, nops>>
    /\ LockUnchanged

LockNext ==
    \E p \in Procs :
        \/ \E op \in ConcOps, s \in Servers, c \in ConcCreds : config_Call(p, op, s, c)
        \/ config_Lock(p)
        \/ config_Read(p)
        \/ config_Mutate(p)
        \/ c_MkdirAll(p)
        \/ c_CreateTemp(p)
        \/ c_Copy(p)
        \/ c_Rename(p)
        \/ config_Unlock(p)

LockSpec == LockInit /\ [][LockNext]_vars

--------------------------------------------------------------------------
(* The lock of config, under LockSpec *)

\* caller p is between the Lock or RLock and the Unlock of its call
InSection(p) == pc[p] \in {"read", "mutate"} \cup LockedSteps

\* C39 (as stated in the specification): getAuthConfig, putAuthConfig and
\* deleteAuthConfig called on the same config all acquire the same lock instance, so
\* no getAuthConfig reads the cache and no second putAuthConfig or deleteAuthConfig
\* mutates and saves while a putAuthConfig or deleteAuthConfig is between its Lock and
\* its Unlock.
C39_OneLock ==
    \A p, q \in Procs :
        p # q /\ InSection(p) /\ call[p].op \in {"Put", "Delete"} => ~InSection(q)
====
